---- MODULE Spec2Model ----
(***************************************************************************)
(* Model of tallywind's repository analysis pipeline                       *)
(* (src/lib/services/repository.ts, analyzeRepositoryWithSSE and the lock  *)
(* helpers), the SSE emitter (src/lib/sse.ts), the POST /api/repo route    *)
(* and the store tables of src/lib/db/schema.ts.                           *)
(*                                                                         *)
(* Every `await` of the orchestrator is a suspension point: one action of  *)
(* the model is the synchronous code that runs from the completion of one  *)
(* awaited call up to the start of the next one.  The awaited call itself  *)
(* (one SQL statement, one clone, one file read) takes effect atomically   *)
(* at the beginning of the action.  Time is counted in minutes.            *)
(***************************************************************************)
EXTENDS Integers, Sequences, FiniteSets, TLC

\* ------------------------------------------------------------------------
\* Bounds of the model
\* ------------------------------------------------------------------------
\* number of clock advances in one behaviour
MaxTicks == 1
\* largest number of files a cloned snapshot lists
MaxFiles == 3
\* number of store statements that fail in one behaviour
MaxStoreFaults == 1

\* ------------------------------------------------------------------------
\* Program constants
\* ------------------------------------------------------------------------
\* cleanupStaleProcessingStates: 10 * 60 * 1000 ms
StaleMinutes == 10
\* analyzeRepositoryWithSSE: hoursSinceLastUpdate < 48
CacheHours == 48
\* batched insert of class rows
BATCH_SIZE == 100
CacheMinutes == CacheHours * 60

\* the two concurrent requests that are modelled
Runs == {"r1", "r2"}

\* SQL NULL of a timestamp / integer column
NullTime == -1
NullInt == -1

\* ------------------------------------------------------------------------
\* Request bodies and github.parseGitHubUrl
\* ------------------------------------------------------------------------
\* A reference is the text of the request split at "/": the full URL
\* https://github.com/o/a is <<"https:", "", "github.com", "o", "a">>, a
\* trailing slash leaves an empty last piece.
FullUrl(owner, repo) == <<"https:", "", "github.com", owner, repo>>
UrlA == FullUrl("o", "a")
UrlB == FullUrl("o", "b")
\* the same repository as UrlA, written with a trailing slash
UrlASlash == Append(UrlA, "")
\* the same repository as UrlA, written as owner/name
Shorthand == <<"o", "a">>
BadUrl == <<"o-a">>
BadJson == <<"{">>
\* a JSON body without repoUrl: the orchestrator is called with undefined
NoUrl == <<"{}">>
Bodies == {UrlA, UrlASlash, UrlB, Shorthand, BadUrl, NoUrl, BadJson}

\* match[2].replace('.git', '')
replaceGit(repo) == IF repo = "a.git" THEN "a" ELSE repo

\* /github\.com\/([^/]+)\/([^/]+)\/?$/ matched at piece i
matchesRepoEnd(url, i) ==
    /\ url[i] = "github.com"
    /\ Len(url) >= i + 2
    /\ url[i + 1] # "" /\ url[i + 2] # ""
    /\ \/ Len(url) = i + 2
       \/ Len(url) = i + 3 /\ url[i + 3] = ""

\* /github\.com\/([^/]+)\/([^/]+)\// matched at piece i
matchesRepoPath(url, i) ==
    /\ url[i] = "github.com"
    /\ Len(url) >= i + 3
    /\ url[i + 1] # "" /\ url[i + 2] # ""

\* parseGitHubUrl: the first pattern that matches gives the owner/repo pair;
\* <<>> stands for the null result
parseGitHubUrl(url) ==
    LET first(S) == CHOOSE i \in S : \A j \in S : i <= j
        ends == {i \in DOMAIN url : matchesRepoEnd(url, i)}
        paths == {i \in DOMAIN url : matchesRepoPath(url, i)}
    IN IF ends # {}
       THEN <<url[first(ends) + 1], replaceGit(url[first(ends) + 2])>>
       ELSE IF paths # {}
       THEN <<url[first(paths) + 1], replaceGit(url[first(paths) + 2])>>
       ELSE <<>>

\* /^[a-zA-Z0-9._-]+$/ on the pieces used here
validNamePattern(piece) == piece \in {"o", "a", "b", "a.git", "o-a", "tree", "main"}

\* utils/github.normalizeGitHubUrl, called by the page before it posts: one
\* trailing slash is dropped, owner/name becomes the full URL, a URL on
\* github.com is cut down to its first two path pieces; <<>> stands for a
\* thrown error
normalizeGitHubUrl(input) ==
    LET cleaned == IF input # <<>> /\ input[Len(input)] = ""
                   THEN SubSeq(input, 1, Len(input) - 1) ELSE input
        withProtocol == IF cleaned # <<>> /\ cleaned[1] \in {"http:", "https:"}
                        THEN cleaned ELSE <<"https:", "">> \o cleaned
        hostname == IF Len(withProtocol) >= 3 THEN withProtocol[3] ELSE ""
        pathParts == SelectSeq(SubSeq(withProtocol, 4, Len(withProtocol)),
                               LAMBDA part : part # "")
    IN IF input = <<>> THEN <<>>
       ELSE IF Len(cleaned) = 2 /\ validNamePattern(cleaned[1])
               /\ validNamePattern(cleaned[2])
       THEN FullUrl(cleaned[1], cleaned[2])
       ELSE IF hostname # "github.com" THEN <<>>
       ELSE IF Len(pathParts) < 2 THEN <<>>
       ELSE IF ~validNamePattern(pathParts[1]) \/ ~validNamePattern(pathParts[2])
       THEN <<>>
       ELSE FullUrl(pathParts[1], pathParts[2])

\* ------------------------------------------------------------------------
\* Rows of the two tables
\* ------------------------------------------------------------------------
NullRepo ==
    [id |-> 0, url |-> <<>>, status |-> "", analyzed_at |-> NullTime,
     processing_started_at |-> NullTime, is_eligible |-> FALSE,
     eligibility_reason |-> "", total_files |-> NullInt,
     processed_files |-> NullInt, total_classes |-> NullInt]

\* The text of a file, as far as extractClasses can tell: a sequence of
\* pieces, each a class attribute with a quoted value (form "class="), a call
\* of a class helper with quoted arguments (form "cls(") or anything else
\* (form "text").  A quoted string is given by the pieces that
\* split(/\s+/) cuts it into, "" for an empty piece.
Attr(value) == [form |-> "class=", strings |-> <<value>>]
Call(args) == [form |-> "cls(", strings |-> args]
Other(strings) == [form |-> "text", strings |-> strings]

\* what getFileContent finds under a path it cannot read
NoContent == <<[form |-> "<unreadable>", strings |-> <<>>]>>

\* A path, as far as shouldParseFile can tell: the pieces its name is made
\* of, so that a marker or an extension is a run of pieces ("api.tsx" is
\* "api", ".ts", "x" and holds the marker "api", ".ts").
lower(piece) ==
    CASE piece = ".HTML" -> ".html"
      [] piece = "Node_Modules/" -> "node_modules/"
      [] OTHER -> piece
toLowerCase(path) == [i \in DOMAIN path |-> lower(path[i])]

\* String.prototype.includes and endsWith
includes(s, pattern) ==
    \E i \in 0..(Len(s) - Len(pattern)) : SubSeq(s, i + 1, i + Len(pattern)) = pattern
endsWith(s, ext) ==
    Len(ext) <= Len(s) /\ SubSeq(s, Len(s) - Len(ext) + 1, Len(s)) = ext

skipPatterns ==
    << <<"node_modules/">>, <<".git/">>, <<"dist/">>, <<"build/">>, <<"coverage/">>,
       <<".next/">>, <<".nuxt/">>, <<".output/">>, <<"vendor/">>, <<"__pycache__/">>,
       <<".pytest_cache/">>, <<"target/">>, <<"bin/">>, <<"obj/">>, <<".vscode/">>,
       <<".idea/">>, <<"package-lock.json">>, <<"yarn.lock">>, <<"pnpm-lock.yaml">>,
       <<".env">>, <<"config", ".js">>, <<"config", ".ts">>, <<"webpack.", "config">>,
       <<"vite.", "config">>, <<"rollup.", "config">>, <<"babel.", "config">>,
       <<"jest.", "config">>, <<"tailwind.", "config">>, <<"postcss.", "config">>,
       <<".d", ".ts">>, <<"types", ".ts">>, <<"constants", ".ts">>, <<"utils", ".ts">>,
       <<"helpers", ".ts">>, <<"api", ".ts">>, <<"service", ".ts">>, <<"store", ".ts">>,
       <<"reducer", ".ts">>, <<"action", ".ts">>, <<"middleware", ".ts">>,
       <<"router", ".ts">>, <<"routes", ".ts">> >>

TAILWIND_FILE_EXTENSIONS ==
    << <<".html">>, <<".htm">>, <<".xhtml">>, <<".js", "x">>, <<".ts", "x">>, <<".vue">>,
       <<".svelte">>, <<".astro">>, <<".solid">>, <<".solid", ".js">>,
       <<".solid", ".ts">>, <<".component", ".html">>, <<".component", ".ts">>,
       <<".ng", ".html">>, <<".mdx">>, <<".webcomponent", ".js">>,
       <<".webcomponent", ".ts">>, <<".htmx", ".html">>, <<".alpine", ".html">> >>

\* a filter in which the extension is looked at first (variant used for C25)
C25_ExtensionFirst(fileName) ==
    LET lowerCase == toLowerCase(fileName)
    IN \/ \E i \in DOMAIN TAILWIND_FILE_EXTENSIONS :
              endsWith(lowerCase, TAILWIND_FILE_EXTENSIONS[i])
       \/ ~\E i \in DOMAIN skipPatterns : includes(lowerCase, skipPatterns[i])

\* shouldParseFile(fileName): no skip pattern in the lower-cased name, and
\* one of the extensions at its end
shouldParseFile(fileName) ==
    LET lowerCase == toLowerCase(fileName)
    IN IF \E i \in DOMAIN skipPatterns : includes(lowerCase, skipPatterns[i])
       THEN FALSE
       ELSE \E i \in DOMAIN TAILWIND_FILE_EXTENSIONS :
                endsWith(lowerCase, TAILWIND_FILE_EXTENSIONS[i])

\* the paths of the snapshots below: a.html, yarn.lock, b.js and b.jsx
AHtml == <<"a", ".html">>
YarnLock == <<"yarn.lock">>
BJs == <<"b", ".js">>
BJsx == <<"b", ".js", "x">>

\* snapshots of eligible repositories: the listed files, each with what is
\* on disk under its path
SnapExample ==
    << [path |-> AHtml, content |-> <<Attr(<<"p-4", "m-2">>)>>],
       [path |-> YarnLock, content |-> <<Other(<< <<"flex">> >>)>>],
       [path |-> BJs, content |-> <<Call(<< <<"flex">>, <<"gap-2">> >>)>>] >>
SnapJsx == [SnapExample EXCEPT ![3].path = BJsx]
SnapUnreadable ==
    << [path |-> AHtml, content |-> NoContent],
       [path |-> BJsx,
        content |-> <<Call(<< <<"flex", "", "flex">> >>), Other(<< <<"m-2">> >>),
                      Attr(<<"flex">>)>>] >>
SnapFour ==
    SnapJsx \o << [path |-> AHtml, content |-> <<Attr(<<"p-4">>)>>] >>
Snapshots == {<<>>, SnapExample, SnapUnreadable, SnapFour}

\* eligibility verdicts of checkRepositoryEligibilityLocal
ReasonNoPackage == "No package.json found - not a Node.js project"
ReasonNoTailwind == "No Tailwind CSS found in dependencies"
Eligibilities ==
    { [isEligible |-> TRUE, reason |-> ""],
      [isEligible |-> FALSE, reason |-> ReasonNoPackage],
      [isEligible |-> FALSE, reason |-> ReasonNoTailwind] }

FileLists == {files \in Snapshots : Len(files) <= MaxFiles}

\* a null result of analyzeRepositoryLocal
NoAnalysis == [ok |-> FALSE, eligibility |-> [isEligible |-> FALSE, reason |-> ""],
               files |-> <<>>]
\* the results analyzeRepositoryLocal can deliver: null when the clone failed,
\* else the listed files and the eligibility verdict of the snapshot (the
\* files of an ineligible snapshot are never read by the orchestrator)
Analyses ==
    {NoAnalysis}
    \cup {[ok |-> TRUE, eligibility |-> e, files |-> <<>>] :
             e \in {x \in Eligibilities : ~x.isEligible}}
    \cup {[ok |-> TRUE, eligibility |-> e, files |-> fl] :
             e \in {x \in Eligibilities : x.isEligible}, fl \in FileLists}

VARIABLES
    db,               \* TRUE iff the module-level drizzle instance exists
    repositories,     \* table repositories: sequence of rows, id = position
    tailwindClasses,  \* table tailwind_classes: sequence of rows
    now,              \* the clock, in minutes
    ticks,            \* number of clock advances so far
    faults,           \* number of store statements that failed so far
    runs,             \* per request: the locals of analyzeRepositoryWithSSE
    acqs,             \* per invocation of analyzeRepositoryLocal: its locals
    disk,             \* the snapshot directories that exist under tmpdir()
    wall,             \* Date.now(), in milliseconds
    remote,           \* the repository on the git server
    calc              \* the call of a pure function under study and its result

vars == <<db, repositories, tailwindClasses, now, ticks, faults, runs,
          acqs, disk, wall, remote, calc>>

\* ------------------------------------------------------------------------
\* Events and the emitter (src/lib/sse.ts)
\* ------------------------------------------------------------------------
NoCounts == <<>>

Ev(type, status, file, n) ==
    [type |-> type, status |-> status, file |-> file, n |-> n, totalFiles |-> NullInt,
     repo |-> NullRepo, classCounts |-> NoCounts, totalClasses |-> NullInt,
     topClasses |-> <<>>]

ProgressEv(status, file, n) == Ev("progress", status, file, n)
FileProcessedEv(file, n) == Ev("file-processed", "", file, n)
\* data.totalFiles of the events of the file stage
OfTotal(ev, totalFiles) == [ev EXCEPT !.totalFiles = totalFiles]
ErrorEv(message) == Ev("error", message, <<>>, NullInt)

MsgNoDb == "Database is not available"
MsgInvalidUrl == "Invalid GitHub URL"
MsgConflict == "Repository is currently being processed by another request"
MsgCloneFailed == "Could not clone repository"
MsgCloneFailedReprocess == "Could not clone repository for reprocessing"
MsgNotEligible == "Repository is not eligible for analysis"
MsgException == "Error analyzing repository"
MsgRouteFailed == "Analysis failed"
MsgRouteSetup == "Failed to start analysis"

\* SSEEmitter.emit: controller.enqueue throws once the stream is closed.  A
\* pending exception (exc) skips the rest of the synchronous code.
emit(s, ev) ==
    IF s.loc.exc THEN s
    ELSE IF s.chan = "open" THEN [s EXCEPT !.events = Append(@, ev)]
    ELSE [s EXCEPT !.loc.exc = TRUE, !.obs.callsOnClosed = @ + 1]

\* SSEEmitter.close: controller.close throws on a closed stream
close(s) ==
    IF s.loc.exc THEN s
    ELSE IF s.chan = "open" THEN [s EXCEPT !.chan = "closed", !.obs.closes = @ + 1]
    ELSE [s EXCEPT !.loc.exc = TRUE, !.obs.callsOnClosed = @ + 1]

\* ------------------------------------------------------------------------
\* The store (drizzle statements on the tables of src/lib/db/schema.ts)
\* ------------------------------------------------------------------------
Ids(repos) == DOMAIN repos

\* db.select().from(repositories).where(eq(repositories.url, url)): first row
selectByUrl(repos, url) ==
    IF \E i \in Ids(repos) : repos[i].url = url
    THEN repos[CHOOSE i \in Ids(repos) : repos[i].url = url /\
                   \A j \in Ids(repos) : repos[j].url = url => i <= j]
    ELSE NullRepo

\* db.select().from(repositories).where(eq(repositories.id, id))
selectById(repos, id) == IF id \in Ids(repos) THEN repos[id] ELSE NullRepo

\* a store without the unique constraint on url (variant used for C2)
C2_NoUniqueConstraint(repos, url) == FALSE

\* url: text('url').notNull().unique(): an insert of a second row with the
\* same url is rejected by the store
ViolatesUnique(repos, url) == \E i \in Ids(repos) : repos[i].url = url

\* db.insert(repositories).values(newRepo).returning(): the serial id
insertRepo(repos, newRepo) == Append(repos, [newRepo EXCEPT !.id = Len(repos) + 1])

\* db.delete(tailwindClasses).where(eq(tailwindClasses.repo_id, id))
deleteClasses(rows, id) == SelectSeq(rows, LAMBDA row : row.repo_id # id)

\* rows of one repository, in table order
classesOf(rows, id) == SelectSeq(rows, LAMBDA row : row.repo_id = id)

\* ------------------------------------------------------------------------
\* Locals of one analyzeRepositoryWithSSE invocation
\* ------------------------------------------------------------------------
\* the part of the acquirer's result that the orchestrator keeps reading
NoHandle == [ok |-> FALSE, eligibility |-> [isEligible |-> FALSE, reason |-> ""]]
handleOf(repoAnalysis) == [ok |-> repoAnalysis.ok, eligibility |-> repoAnalysis.eligibility]

Locals ==
    [existingRepo |-> NullRepo, needsReprocessing |-> FALSE, repoRecord |-> NullRepo,
     lockRepo |-> NullRepo, repoAnalysis |-> NoHandle, eligibleFiles |-> <<>>,
     filesToProcess |-> <<>>, filesProcessed |-> 0, classCounts |-> NoCounts,
     batchI |-> 0, exc |-> FALSE]

\* what a run has done so far: observations, never read by the code
Observed ==
    [wrote |-> FALSE, wroteClasses |-> FALSE, inserted |-> FALSE, clones |-> 0,
     handles |-> 0, cleanups |-> 0, closes |-> 0, callsOnClosed |-> 0,
     threw |-> FALSE, threwHolding |-> FALSE, unhandled |-> FALSE, lockedId |-> 0,
     rejected |-> FALSE, fileStage |-> FALSE, verdict |-> "", files |-> <<>>,
     lockedBy |-> "", lastStatusWritten |-> "", seenStatus |-> "", seenAge |-> NullInt,
     seenLockAge |-> NullInt, forced |-> FALSE, cachePath |-> FALSE,
     countsAtRead |-> NoCounts, connectedAt |-> NullInt, reset |-> {}]

InitRun ==
    [pc |-> "idle", repoUrl |-> <<>>, chan |-> "open", events |-> <<>>,
     loc |-> Locals, obs |-> Observed]

\* ------------------------------------------------------------------------
\* Counting (tailwind-parser.ts) and result shaping (repository.ts)
\* ------------------------------------------------------------------------
\* names every object inherits from Object.prototype, which the `{}` of
\* countTailwindClasses answers with a function before the name is counted
ObjectPrototype == {"constructor", "toString"}

\* what `(classCounts[cls] || 0) + 1` leaves when classCounts[cls] is not a
\* number: the text of the function with "1" appended
Concatenated == 0 - 1

\* classCounts[cls] = (classCounts[cls] || 0) + 1 on a Record kept in
\* insertion order: a sequence of <<class_name, count>> entries
bump(counts, cls) ==
    IF \E i \in DOMAIN counts : counts[i].class_name = cls
    THEN [i \in DOMAIN counts |->
            IF counts[i].class_name = cls /\ counts[i].count # Concatenated
            THEN [counts[i] EXCEPT !.count = @ + 1] ELSE counts[i]]
    ELSE Append(counts, [class_name |-> cls,
                         count |-> IF cls \in ObjectPrototype THEN Concatenated ELSE 1])

RECURSIVE bumpAll(_, _)
bumpAll(counts, classes) ==
    IF classes = <<>> THEN counts
    ELSE bumpAll(bump(counts, Head(classes)), Tail(classes))

\* parseClassString: split(/\s+/).filter(Boolean)
parseClassString(classString) == SelectSeq(classString, LAMBDA piece : piece # "")

RECURSIVE parseAll(_)
parseAll(strings) ==
    IF strings = <<>> THEN <<>>
    ELSE parseClassString(Head(strings)) \o parseAll(Tail(strings))

\* the classes one pass of extractClasses pushes: those of the quoted strings
\* of every match of the pass's pattern, in the order of the text
RECURSIVE matchesOf(_, _)
matchesOf(content, form) ==
    IF content = <<>> THEN <<>>
    ELSE (IF Head(content).form = form THEN parseAll(Head(content).strings) ELSE <<>>)
         \o matchesOf(Tail(content), form)

\* lastIndex of the two module-level /g patterns between calls
AtStart == [CLASS_REGEX |-> 0, CLASSNAME_FUNCTION_REGEX |-> 0]

\* `while ((match = REGEX.exec(content)) !== null)`: exec searches from
\* lastIndex on; the exec that answers null sets lastIndex back to 0
whileExec(content, form, lastIndex) ==
    [classes |-> matchesOf(SubSeq(content, lastIndex + 1, Len(content)), form),
     lastIndex |-> 0]

\* an extractor that leaves out the pass over the helper calls (variant used
\* for C14)
C14_ExtractAttributesOnly(content, lastIndex) ==
    [classes |-> matchesOf(content, "class="), lastIndex |-> AtStart]

\* extractClasses: the pass over CLASS_REGEX, then the pass over
\* CLASSNAME_FUNCTION_REGEX, each from where its pattern was left
extractClassesFrom(content, lastIndex) ==
    LET attributes == whileExec(content, "class=", lastIndex.CLASS_REGEX)
        helpers == whileExec(content, "cls(", lastIndex.CLASSNAME_FUNCTION_REGEX)
    IN [classes |-> attributes.classes \o helpers.classes,
        lastIndex |-> [CLASS_REGEX |-> attributes.lastIndex,
                       CLASSNAME_FUNCTION_REGEX |-> helpers.lastIndex]]

extractClasses(content) == extractClassesFrom(content, AtStart).classes

\* countTailwindClasses(files): files failing shouldParseFile are skipped
RECURSIVE countFrom(_, _, _)
countFrom(counts, lastIndex, files) ==
    IF files = <<>> THEN [counts |-> counts, lastIndex |-> lastIndex]
    ELSE IF shouldParseFile(Head(files).name)
    THEN LET extracted == extractClassesFrom(Head(files).content, lastIndex)
         IN countFrom(bumpAll(counts, extracted.classes), extracted.lastIndex,
                      Tail(files))
    ELSE countFrom(counts, lastIndex, Tail(files))

countTailwindClasses(files) == countFrom(NoCounts, AtStart, files).counts

\* getClassCountsForRepo: result[row.class_name] = row.count over the rows
RECURSIVE countsFromRows(_, _)
countsFromRows(result, rows) ==
    IF rows = <<>> THEN result
    ELSE LET row == Head(rows)
             set == IF \E i \in DOMAIN result : result[i].class_name = row.class_name
                    THEN [i \in DOMAIN result |->
                            IF result[i].class_name = row.class_name
                            THEN [result[i] EXCEPT !.count = row.count] ELSE result[i]]
                    ELSE Append(result, [class_name |-> row.class_name, count |-> row.count])
         IN countsFromRows(set, Tail(rows))

\* Object.values(classCounts).reduce((sum, count) => sum + count, 0)
RECURSIVE total(_)
total(counts) == IF counts = <<>> THEN 0 ELSE Head(counts).count + total(Tail(counts))

\* the array index a property name is, for the names that are one ("2",
\* "10"), else -1
arrayIndex(name) == CASE name = "2" -> 2 [] name = "10" -> 10 [] OTHER -> 0 - 1

\* Array.prototype.sort with a comparator that orders by key, smaller first:
\* stable, so entries of equal key keep their order
sortedBy(entries, key) ==
    LET rank(i) == Cardinality({j \in DOMAIN entries :
                                  \/ key[j] < key[i]
                                  \/ key[j] = key[i] /\ j <= i})
    IN [p \in DOMAIN entries |-> entries[CHOOSE i \in DOMAIN entries : rank(i) = p]]

\* Object.entries(classCounts): the names that are array indices first, in
\* ascending numeric order, then the other names in insertion order
ObjectEntries(counts) ==
    LET indices == SelectSeq(counts, LAMBDA e : arrayIndex(e.class_name) >= 0)
        names == SelectSeq(counts, LAMBDA e : arrayIndex(e.class_name) < 0)
    IN sortedBy(indices, [i \in DOMAIN indices |-> arrayIndex(indices[i].class_name)])
       \o names

TopCount == 20

\* formatTailwindStats(repo, classCounts): total and topClasses
formatTailwindStats(repo, classCounts) ==
    LET all == ObjectEntries(classCounts)
        sorted == sortedBy(all, [i \in DOMAIN all |-> 0 - all[i].count])
    IN [repo |-> repo, classCounts |-> classCounts, total |-> total(classCounts),
        topClasses |-> SubSeq(sorted, 1, IF Len(sorted) < TopCount
                                         THEN Len(sorted) ELSE TopCount)]

\* the completed event built from formatTailwindStats(repo, classCounts)
CompletedEv(repo, classCounts) ==
    LET stats == formatTailwindStats(repo, classCounts)
    IN [Ev("completed", "", <<>>, NullInt) EXCEPT
           !.repo = repo, !.classCounts = classCounts, !.totalClasses = stats.total,
           !.topClasses = stats.topClasses]

\* classRows: one row per entry of the count map
classRows(id, counts) ==
    [i \in DOMAIN counts |->
        [repo_id |-> id, class_name |-> counts[i].class_name, count |-> counts[i].count]]

\* eligibleFiles = repoAnalysis.files.filter((file) => shouldParseFile(file.path))
eligibleFilesOf(files) == SelectSeq(files, LAMBDA file : shouldParseFile(file.path))

\* ------------------------------------------------------------------------
\* Freshness and staleness
\* ------------------------------------------------------------------------
\* hoursSinceLastUpdate < 48, with analyzed_at and the clock in minutes
cacheIsFresh(repo, t) == (t - repo.analyzed_at) < CacheMinutes

\* and(eq(status, 'processing'), lt(processing_started_at, tenMinutesAgo))
isStale(repo, t) ==
    /\ repo.status = "processing"
    /\ repo.processing_started_at # NullTime
    /\ repo.processing_started_at < t - StaleMinutes

\* cleanupStaleProcessingStates: one UPDATE over every stale row
cleanupStaleProcessingStates(repos, t) ==
    [i \in Ids(repos) |->
        IF isStale(repos[i], t)
        THEN [repos[i] EXCEPT !.status = "failed", !.processing_started_at = NullTime]
        ELSE repos[i]]

\* the leases that the UPDATE of cleanupStaleProcessingStates ends: record
\* and processing_started_at of every row it matches
staleLeases(repos, t) ==
    {<<i, repos[i].processing_started_at>> : i \in {j \in Ids(repos) : isStale(repos[j], t)}}

\* tryAcquireProcessingLock, after its select: may the lock be taken?
mayAcquire(existingRepo, forceReprocess) ==
    /\ existingRepo.id # 0
    /\ ~(existingRepo.status = "completed" /\ ~forceReprocess)
    /\ existingRepo.status # "processing"

\* a lock update that sets the status and forgets the timestamp (variant
\* used for C8)
C8_AcquireWithoutStamp(repos, id, t) ==
    [repos EXCEPT ![id] = [@ EXCEPT !.status = "processing"]]

\* tryAcquireProcessingLock: UPDATE ... SET status, processing_started_at WHERE id
acquireUpdate(repos, id, t) ==
    [repos EXCEPT ![id] = [@ EXCEPT !.status = "processing", !.processing_started_at = t]]

\* releaseProcessingLock(repoId, finalStatus)
releaseProcessingLock(repos, repoId, finalStatus, t) ==
    [repos EXCEPT ![repoId] = [@ EXCEPT !.status = finalStatus,
                                         !.processing_started_at = NullTime,
                                         !.analyzed_at = t]]

\* the row a run inserts for a repository that has no record yet
newRepoRow(url, status, startedAt, eligibility, t) ==
    [NullRepo EXCEPT !.url = url, !.status = status, !.analyzed_at = t,
                     !.processing_started_at = startedAt,
                     !.is_eligible = eligibility.isEligible,
                     !.eligibility_reason = eligibility.reason]

\* the update of an existing record found ineligible on reprocessing
markIneligible(repos, id, eligibility, t) ==
    [repos EXCEPT ![id] = [@ EXCEPT !.status = "ineligible",
                                     !.processing_started_at = NullTime,
                                     !.analyzed_at = t, !.is_eligible = FALSE,
                                     !.eligibility_reason = eligibility.reason]]

\* the final update of a run: status completed, lock released
markCompleted(repos, id, totalClasses, t) ==
    [repos EXCEPT ![id] = [@ EXCEPT !.status = "completed", !.analyzed_at = t,
                                     !.processing_started_at = NullTime,
                                     !.total_classes = totalClasses]]
\* ------------------------------------------------------------------------
\* Control flow shared by the steps of analyzeRepositoryWithSSE
\* ------------------------------------------------------------------------
\* return: the locals of the invocation are gone
ret(s) == [s EXCEPT !.pc = "done", !.loc = Locals]

\* the tail of the catch block: emit the error, close; an exception of these
\* calls rejects the promise and reaches the .catch of the route
catchEmit(s) ==
    LET e == close(emit(s, ErrorEv(MsgException)))
    IN IF e.loc.exc THEN [e EXCEPT !.loc = Locals, !.pc = "routeCatch"] ELSE ret(e)

\* catch (error): release the lock when repoRecord?.id, then report
catch(s) ==
    LET c == [s EXCEPT !.loc = [Locals EXCEPT !.repoRecord = s.loc.repoRecord],
                       !.obs.threw = TRUE,
                       !.obs.threwHolding = (s.loc.repoRecord.id # 0)]
    IN IF c.loc.repoRecord.id # 0 THEN [c EXCEPT !.pc = "release"] ELSE catchEmit(c)

\* end of a synchronous stretch inside the try block
settle(s, next) ==
    IF s.loc.exc THEN catch(s)
    ELSE IF next = "done" THEN ret(s) ELSE [s EXCEPT !.pc = next]

\* emit a terminal event, close and return
finish(s, ev) == settle(close(emit(s, ev)), "done")

\* an end of the loop that announces saving before analyzing (variant used
\* for C18)
C18_AfterLoopSavingFirst(s) ==
    LET a == emit(s, ProgressEv("saving", <<"Saving to database">>, NullInt))
        c == [a EXCEPT !.loc.classCounts = countTailwindClasses(s.loc.filesToProcess),
                       !.loc.filesToProcess = <<>>]
    IN settle(emit(c, ProgressEv("analyzing", <<"Counting Tailwind classes">>, NullInt)),
              "deleteRows")

\* after the file loop: count, announce analyzing and saving, start the delete
afterLoop(s) ==
    LET a == emit(s, ProgressEv("analyzing", <<"Counting Tailwind classes">>, NullInt))
        c == [a EXCEPT !.loc.classCounts = countTailwindClasses(s.loc.filesToProcess),
                       !.loc.filesToProcess = <<>>]
    IN settle(emit(c, ProgressEv("saving", <<"Saving to database">>, NullInt)), "deleteRows")

\* a loop head that starts reading the next file without announcing it
\* (variant used for C17)
C17_LoopHeadWithoutAnnouncement(s) ==
    IF s.loc.exc THEN catch(s)
    ELSE IF s.loc.filesProcessed < Len(s.loc.eligibleFiles)
    THEN settle(s, "readFile")
    ELSE afterLoop(s)

\* head of `for (const file of eligibleFiles)`: announce the next file and
\* start reading it, or leave the loop
loopHead(s) ==
    IF s.loc.exc THEN catch(s)
    ELSE IF s.loc.filesProcessed < Len(s.loc.eligibleFiles)
    THEN settle(emit(s, OfTotal(ProgressEv("parsing",
                                           s.loc.eligibleFiles[s.loc.filesProcessed + 1].path,
                                           s.loc.filesProcessed),
                                Len(s.loc.eligibleFiles))), "readFile")
    ELSE afterLoop(s)

\* tryAcquireProcessingLock returned null: the branch `if (!repoRecord)`
notAcquired(s) ==
    settle(emit([s EXCEPT !.loc.lockRepo = NullRepo],
                ProgressEv("fetching", <<"Cloning repository">>, NullInt)), "cloneNew")

\* tryAcquireProcessingLock returned the updated row: the else branch
acquired(s, row) ==
    settle(emit([s EXCEPT !.loc.repoRecord = row, !.loc.lockRepo = NullRepo,
                          !.obs.lockedId = row.id, !.obs.lockedBy = "update",
                          !.obs.lastStatusWritten = "processing"],
                ProgressEv("fetching", <<"Cloning repository for reprocessing">>, NullInt)),
           "cloneExisting")

\* a lookup decision without the conflict check of lines 564-572 (variant
\* used for C10)
C10_LookupWithoutConflictCheck(s, existingRepo, t) ==
    LET l == [s EXCEPT !.loc.existingRepo = existingRepo]
    IN IF existingRepo.id # 0 /\ existingRepo.status = "completed"
          /\ cacheIsFresh(existingRepo, t)
       THEN [l EXCEPT !.pc = "cacheRead", !.obs.cachePath = TRUE]
       ELSE [l EXCEPT !.loc.needsReprocessing = (existingRepo.status = "completed"),
                      !.loc.existingRepo = NullRepo,
                      !.obs.forced = (existingRepo.status = "completed"),
                      !.pc = "lockCleanup"]

\* decision after the record lookup: cache hit, conflict, or lock attempt
afterLookup(s, existingRepo, t) ==
    LET l == [s EXCEPT !.loc.existingRepo = existingRepo]
    IN IF existingRepo.id # 0 /\ existingRepo.status = "completed"
          /\ cacheIsFresh(existingRepo, t)
       THEN [l EXCEPT !.pc = "cacheRead", !.obs.cachePath = TRUE]
       ELSE IF existingRepo.id # 0 /\ existingRepo.status = "processing"
       THEN finish(l, ErrorEv(MsgConflict))
       ELSE [l EXCEPT !.loc.needsReprocessing = (existingRepo.status = "completed"),
                      !.loc.existingRepo = NullRepo,
                      !.obs.forced = (existingRepo.status = "completed"),
                      !.pc = "lockCleanup"]

\* a start that skips the check of the parsed reference (variant used for
\* C11)
C11_StartWithoutValidation(s, dbAvailable) ==
    IF ~dbAvailable THEN ret(close(emit(s, ErrorEv(MsgNoDb))))
    ELSE settle(emit(s, ProgressEv("fetching", <<"Repository metadata">>, NullInt)), "lookup")

\* analyzeRepositoryWithSSE up to its first await (url.match throws on an
\* undefined repoUrl, inside the try block)
analyzeStart(s, dbAvailable) ==
    IF ~dbAvailable THEN ret(close(emit(s, ErrorEv(MsgNoDb))))
    ELSE IF s.repoUrl = NoUrl THEN catch(s)
    ELSE IF parseGitHubUrl(s.repoUrl) = <<>> THEN finish(s, ErrorEv(MsgInvalidUrl))
    ELSE settle(emit(s, ProgressEv("fetching", <<"Repository metadata">>, NullInt)), "lookup")

\* a response whose stream starts empty (variant used for C28)
C28_StreamWithoutGreeting(s) == s

\* createSSEResponse: start(ctrl) runs inside the ReadableStream constructor
\* and enqueues 'connected'; connectedAt is the number of events the emitter
\* had enqueued by then
createSSEResponse(s) == [s EXCEPT !.obs.connectedAt = Len(s.events)]

\* POST /api/repo: a body that is no JSON is answered on a fresh stream
\* with one error event; else the analysis is started with the stream
POST(s, body) ==
    IF body = BadJson THEN ret(close(emit(createSSEResponse(s), ErrorEv(MsgRouteSetup))))
    ELSE analyzeStart(createSSEResponse([s EXCEPT !.repoUrl = body]), db)

\* the error event of an ineligible repository
ineligibleEv(eligibility) ==
    ErrorEv(IF eligibility.reason # "" THEN eligibility.reason ELSE MsgNotEligible)

\* a slice that takes one row more than the batch size (variant used for
\* C38)
C38_SliceOneMore(rows, i) ==
    SubSeq(rows, i + 1, IF i + BATCH_SIZE + 1 < Len(rows) THEN i + BATCH_SIZE + 1
                        ELSE Len(rows))

\* classRows.slice(i, i + BATCH_SIZE)
batch(rows, i) ==
    SubSeq(rows, i + 1, IF i + BATCH_SIZE < Len(rows) THEN i + BATCH_SIZE ELSE Len(rows))

\* ------------------------------------------------------------------------
\* Initial states
\* ------------------------------------------------------------------------
\* the clock starts late enough for a record to be older than the cache window
Epoch == CacheMinutes + StaleMinutes

OldRow(status, analyzedAge, startedAge) ==
    [NullRepo EXCEPT !.id = 1, !.url = UrlA, !.status = status,
                     !.analyzed_at = Epoch - analyzedAge,
                     !.processing_started_at =
                         IF startedAge = NullTime THEN NullTime ELSE Epoch - startedAge,
                     !.is_eligible = (status # "ineligible"),
                     !.eligibility_reason =
                         IF status = "ineligible" THEN ReasonNoTailwind ELSE "",
                     !.total_files = IF status = "completed" THEN 1 ELSE NullInt,
                     !.processed_files = IF status = "completed" THEN 1 ELSE NullInt,
                     !.total_classes = IF status = "completed" THEN 3 ELSE NullInt]

OldClasses ==
    << [repo_id |-> 1, class_name |-> "p-4", count |-> 2],
       [repo_id |-> 1, class_name |-> "old", count |-> 1] >>

\* stores left behind by earlier requests: no record, or one record for UrlA
\* that failed, was ineligible, completed just inside or just outside the
\* cache window, or is processing just inside or just outside the staleness
\* window
InitStores ==
    { [repos |-> <<>>, classes |-> <<>>],
      [repos |-> <<OldRow("failed", 0, NullTime)>>, classes |-> <<>>],
      [repos |-> <<OldRow("ineligible", 0, NullTime)>>, classes |-> <<>>],
      [repos |-> <<OldRow("completed", CacheMinutes - 1, NullTime)>>, classes |-> OldClasses],
      [repos |-> <<OldRow("completed", CacheMinutes, NullTime)>>, classes |-> OldClasses],
      [repos |-> <<OldRow("processing", StaleMinutes, StaleMinutes)>>, classes |-> <<>>],
      [repos |-> <<OldRow("processing", StaleMinutes + 1, StaleMinutes + 1)>>,
       classes |-> <<>>] }

\* ------------------------------------------------------------------------
\* The acquirer's state (git-clone.ts) and the calls of pure functions
\* ------------------------------------------------------------------------
Acqs == {"a1", "a2"}

\* what a call of getDefaultBranch did: the outcome of the query for HEAD,
\* the probes with their outcomes, and the branch returned
NoBranchCall == [symref |-> "", probed |-> <<>>, returned |-> ""]

\* an invocation of analyzeRepositoryLocal before it starts
InitAcq ==
    [pc |-> "idle", key |-> <<>>, tempDir |-> <<>>, phase |-> "", probe |-> 0,
     symref |-> "", probed |-> <<>>, targetBranch |-> "", defaultBranch |-> "",
     result |-> "", cleaned |-> FALSE, elapsed |-> 0, lastCall |-> NoBranchCall]

\* a repository on the server: the branch its HEAD names ("" when the answer
\* to ls-remote --symref carries no ref line) and the branches it has
NoRemote == [head |-> "", heads |-> {}]

GitIdle ==
    /\ acqs = [a \in Acqs |-> InitAcq]
    /\ disk = {}
    /\ wall = 0
    /\ remote = NoRemote

\* no pure function is being called
NoCall == [fn |-> ""]

Init ==
    /\ db \in BOOLEAN
    /\ \E st \in InitStores : repositories = st.repos /\ tailwindClasses = st.classes
    /\ now = Epoch
    /\ ticks = 0
    /\ faults = 0
    /\ runs = [r \in Runs |-> InitRun]
    /\ GitIdle
    /\ calc = NoCall

\* ------------------------------------------------------------------------
\* Actions
\* ------------------------------------------------------------------------
Step(r, s) ==
    /\ runs' = [runs EXCEPT ![r] = s]
    /\ UNCHANGED <<acqs, disk, wall, remote, calc>>

\* Requests are interchangeable.  r1 is the request under observation: the
\* environment's adversity (a failing store statement, an observer that goes
\* away) strikes r1, and r2 is the concurrent request it competes with.
\* outcomes of one store statement: it succeeds, or (within the bound) fails
StoreOutcomes(r) == IF faults < MaxStoreFaults /\ r = "r1" THEN BOOLEAN ELSE {TRUE}
\* outcomes of a statement whose failure the caller swallows: the failure is
\* taken only where it changes what the caller gets
SwallowedOutcomes(r, matters) == IF matters THEN StoreOutcomes(r) ELSE {TRUE}
Outcome(ok) == faults' = IF ok THEN faults ELSE faults + 1

\* The observer may go away (the stream is cancelled) while a run is
\* suspended.  The code can notice it only in emit or close, so the cancel is
\* placed right before the synchronous stretch that notices it: a step is
\* taken with the stream as it is, or with the stream just cancelled, and in
\* the second case the step has to contain the call that throws.
Conn(r) ==
    {runs[r]} \cup
    (IF runs[r].chan = "open" /\ r = "r1" THEN {[runs[r] EXCEPT !.chan = "closed"]} ELSE {})
Noticed(r) ==
    \/ runs'[r].chan = runs[r].chan
    \/ runs[r].chan = "closed"
    \/ runs'[r].obs.closes > runs[r].obs.closes
    \/ runs'[r].obs.callsOnClosed > runs[r].obs.callsOnClosed

\* r1 is a request for UrlA, r2 any request
BodiesOf(r) == IF r = "r1" THEN {UrlA} ELSE Bodies

\* what the clone of a run can deliver: anything for r1; a failure, an
\* ineligible snapshot or the snapshot of the example for r2
AnalysesOf(r) ==
    IF r = "r1" THEN Analyses
    ELSE {a \in Analyses : a.ok => \/ a.eligibility.reason = ReasonNoTailwind
                                   \/ a.files = SnapExample}

\* a request arrives: POST runs analyzeRepositoryWithSSE up to its first await
Start(r) ==
    /\ runs[r].pc = "idle"
    /\ \E body \in BodiesOf(r) : Step(r, POST(runs[r], body))
    /\ UNCHANGED <<db, repositories, tailwindClasses, now, ticks, faults>>

\* getRepositoryByUrl returns (null when the select failed), then the cache
\* and conflict checks
Lookup(r) ==
    /\ runs[r].pc = "lookup"
    /\ \E c \in Conn(r),
          ok \in SwallowedOutcomes(r, selectByUrl(repositories, runs[r].repoUrl) # NullRepo) :
         LET row == selectByUrl(repositories, c.repoUrl)
             s == [c EXCEPT !.obs.seenStatus = IF ~ok THEN "unknown"
                                               ELSE IF row = NullRepo THEN "none"
                                               ELSE row.status,
                            !.obs.seenAge = IF ok /\ row # NullRepo
                                            THEN now - row.analyzed_at ELSE NullInt,
                            !.obs.seenLockAge =
                                IF ok /\ row.processing_started_at # NullTime
                                THEN now - row.processing_started_at ELSE NullInt]
         IN /\ Outcome(ok)
            /\ Step(r, afterLookup(s, IF ok THEN row ELSE NullRepo, now))
    /\ Noticed(r)
    /\ UNCHANGED <<db, repositories, tailwindClasses, now, ticks>>

\* cache hit: getClassCountsForRepo returns ({} when the select failed), the
\* completed event is emitted and the stream closed
CacheRead(r) ==
    /\ runs[r].pc = "cacheRead"
    /\ \E c \in Conn(r),
          ok \in SwallowedOutcomes(r, 
                    classesOf(tailwindClasses, runs[r].loc.existingRepo.id) # <<>>) :
         LET s == c
             rows == classesOf(tailwindClasses, s.loc.existingRepo.id)
             classCounts == IF ok THEN countsFromRows(NoCounts, rows) ELSE NoCounts
         IN /\ Outcome(ok)
            /\ Step(r, finish([s EXCEPT !.obs.countsAtRead = countsFromRows(NoCounts, rows)],
                              CompletedEv(s.loc.existingRepo, classCounts)))
    /\ Noticed(r)
    /\ UNCHANGED <<db, repositories, tailwindClasses, now, ticks>>

\* tryAcquireProcessingLock, first await: cleanupStaleProcessingStates (a
\* failure of its update is logged and swallowed)
LockCleanup(r) ==
    /\ runs[r].pc = "lockCleanup"
    /\ \E c \in Conn(r),
          ok \in SwallowedOutcomes(r, 
                    cleanupStaleProcessingStates(repositories, now) # repositories) :
         /\ Outcome(ok)
         /\ repositories' = IF ok THEN cleanupStaleProcessingStates(repositories, now)
                            ELSE repositories
         /\ Step(r, [c EXCEPT !.pc = "lockSelect",
                               !.obs.wrote = @ \/ (repositories' # repositories),
                               !.obs.reset = IF ok THEN staleLeases(repositories, now)
                                             ELSE {}])
    /\ Noticed(r)
    /\ UNCHANGED <<db, tailwindClasses, now, ticks>>

\* tryAcquireProcessingLock, second await: the select by url and the checks
\* on its result (a failure makes the function return null)
LockSelect(r) ==
    /\ runs[r].pc = "lockSelect"
    /\ \E c \in Conn(r),
          ok \in SwallowedOutcomes(r, 
                    mayAcquire(selectByUrl(repositories, runs[r].repoUrl),
                               runs[r].loc.needsReprocessing)) :
         LET s == c
             existingRepo == IF ok THEN selectByUrl(repositories, s.repoUrl) ELSE NullRepo
         IN /\ Outcome(ok)
            /\ IF mayAcquire(existingRepo, s.loc.needsReprocessing)
               THEN Step(r, [s EXCEPT !.loc.lockRepo = existingRepo, !.pc = "lockUpdate"])
               ELSE Step(r, notAcquired(s))
    /\ Noticed(r)
    /\ UNCHANGED <<db, repositories, tailwindClasses, now, ticks>>

\* tryAcquireProcessingLock, third await: the update that takes the lock (a
\* failure makes the function return null)
LockUpdate(r) ==
    /\ runs[r].pc = "lockUpdate"
    /\ \E c \in Conn(r), ok \in StoreOutcomes(r) :
         LET s == c
             updated == acquireUpdate(repositories, s.loc.lockRepo.id, now)
         IN /\ Outcome(ok)
            /\ repositories' = IF ok THEN updated ELSE repositories
            /\ IF ok
               THEN Step(r, acquired([s EXCEPT !.obs.wrote = TRUE],
                                     updated[s.loc.lockRepo.id]))
               ELSE Step(r, notAcquired(s))
    /\ Noticed(r)
    /\ UNCHANGED <<db, tailwindClasses, now, ticks>>

\* analyzeRepositoryLocal returns in the branch without a lock.  The filter
\* of the listed files, a pure function of the result, is applied here.
CloneNew(r) ==
    /\ runs[r].pc = "cloneNew"
    /\ \E c \in Conn(r), repoAnalysis \in AnalysesOf(r) :
         LET s == [c EXCEPT !.obs.clones = @ + 1,
                                  !.obs.handles = @ + (IF repoAnalysis.ok THEN 1 ELSE 0),
                                  !.obs.verdict =
                                      IF ~repoAnalysis.ok THEN ""
                                      ELSE IF repoAnalysis.eligibility.isEligible
                                      THEN "eligible"
                                      ELSE repoAnalysis.eligibility.reason,
                                  !.loc.repoAnalysis = handleOf(repoAnalysis),
                                  !.loc.eligibleFiles = eligibleFilesOf(repoAnalysis.files)]
         IN IF ~repoAnalysis.ok THEN Step(r, finish(s, ErrorEv(MsgCloneFailed)))
            ELSE IF ~repoAnalysis.eligibility.isEligible
            THEN Step(r, [s EXCEPT !.pc = "insertIneligible"])
            ELSE Step(r, [s EXCEPT !.pc = "insertNew"])
    /\ Noticed(r)
    /\ UNCHANGED <<db, repositories, tailwindClasses, now, ticks, faults>>

\* analyzeRepositoryLocal returns in the branch that holds the lock
CloneExisting(r) ==
    /\ runs[r].pc = "cloneExisting"
    /\ \E c \in Conn(r), repoAnalysis \in AnalysesOf(r) :
         LET s == [c EXCEPT !.obs.clones = @ + 1,
                                  !.obs.handles = @ + (IF repoAnalysis.ok THEN 1 ELSE 0),
                                  !.obs.verdict =
                                      IF ~repoAnalysis.ok THEN ""
                                      ELSE IF repoAnalysis.eligibility.isEligible
                                      THEN "eligible"
                                      ELSE repoAnalysis.eligibility.reason,
                                  !.loc.repoAnalysis = handleOf(repoAnalysis),
                                  !.loc.eligibleFiles = eligibleFilesOf(repoAnalysis.files)]
         IN IF ~repoAnalysis.ok THEN Step(r, finish(s, ErrorEv(MsgCloneFailedReprocess)))
            ELSE IF ~repoAnalysis.eligibility.isEligible
            THEN Step(r, [s EXCEPT !.pc = "updateIneligible"])
            ELSE Step(r, [s EXCEPT !.pc = "setTotals"])
    /\ Noticed(r)
    /\ UNCHANGED <<db, repositories, tailwindClasses, now, ticks, faults>>

\* new repository, ineligible: insert the record as ineligible, clean the
\* snapshot up, emit the reason
InsertIneligible(r) ==
    /\ runs[r].pc = "insertIneligible"
    /\ \E c \in Conn(r), ok \in StoreOutcomes(r) :
         LET s == c
             newRepo == newRepoRow(s.repoUrl, "ineligible", NullTime,
                                   s.loc.repoAnalysis.eligibility, now)
             done == ok /\ ~ViolatesUnique(repositories, s.repoUrl)
         IN /\ Outcome(ok)
            /\ repositories' = IF done THEN insertRepo(repositories, newRepo)
                               ELSE repositories
            /\ IF done
               THEN Step(r, finish([s EXCEPT !.obs.wrote = TRUE, !.obs.inserted = TRUE,
                                            !.obs.lastStatusWritten = "ineligible",
                                            !.obs.cleanups = @ + 1],
                                   ineligibleEv(s.loc.repoAnalysis.eligibility)))
               ELSE Step(r, catch([s EXCEPT !.obs.rejected = ok]))
    /\ Noticed(r)
    /\ UNCHANGED <<db, tailwindClasses, now, ticks>>

\* new repository, eligible: insert the record as processing
InsertNew(r) ==
    /\ runs[r].pc = "insertNew"
    /\ \E c \in Conn(r), ok \in StoreOutcomes(r) :
         LET s == c
             newRepo == newRepoRow(s.repoUrl, "processing", now,
                                   s.loc.repoAnalysis.eligibility, now)
             inserted == insertRepo(repositories, newRepo)
             done == ok /\ ~ViolatesUnique(repositories, s.repoUrl)
         IN /\ Outcome(ok)
            /\ repositories' = IF done THEN inserted ELSE repositories
            /\ IF done
               THEN Step(r, [s EXCEPT !.obs.wrote = TRUE, !.obs.inserted = TRUE,
                                      !.obs.lockedId = Len(inserted),
                                      !.obs.lockedBy = "insert",
                                      !.obs.lastStatusWritten = "processing",
                                      !.loc.repoRecord = inserted[Len(inserted)],
                                      !.pc = "setTotals"])
               ELSE Step(r, catch([s EXCEPT !.obs.rejected = ok]))
    /\ Noticed(r)
    /\ UNCHANGED <<db, tailwindClasses, now, ticks>>

\* existing repository, ineligible: update the record, clean up, emit
UpdateIneligible(r) ==
    /\ runs[r].pc = "updateIneligible"
    /\ \E c \in Conn(r), ok \in StoreOutcomes(r) :
         LET s == c
         IN /\ Outcome(ok)
            /\ repositories' =
                  IF ok THEN markIneligible(repositories, s.loc.repoRecord.id,
                                            s.loc.repoAnalysis.eligibility, now)
                  ELSE repositories
            /\ IF ok
               THEN Step(r, finish([s EXCEPT !.obs.wrote = TRUE, !.obs.cleanups = @ + 1,
                                            !.obs.lastStatusWritten = "ineligible"],
                                   ineligibleEv(s.loc.repoAnalysis.eligibility)))
               ELSE Step(r, catch(s))
    /\ Noticed(r)
    /\ UNCHANGED <<db, tailwindClasses, now, ticks>>

\* the update of total_files / processed_files
setTotals(repos, id, n) ==
    [repos EXCEPT ![id] = [@ EXCEPT !.total_files = n, !.processed_files = 0]]

\* a loop that counts the files without persisting the count (variant used
\* for C36)
C36_ProgressNotPersisted(repos, id, n) == repos

\* the update of processed_files inside the loop
setProcessed(repos, id, n) == [repos EXCEPT ![id] = [@ EXCEPT !.processed_files = n]]

\* the update of total_files / processed_files, then the head of the loop
SetTotals(r) ==
    /\ runs[r].pc = "setTotals"
    /\ \E c \in Conn(r), ok \in StoreOutcomes(r) :
         LET s == c
             n == Len(s.loc.eligibleFiles)
         IN /\ Outcome(ok)
            /\ repositories' = IF ok THEN setTotals(repositories, s.loc.repoRecord.id, n)
                               ELSE repositories
            /\ IF ok
               THEN Step(r, loopHead(emit([s EXCEPT !.obs.wrote = TRUE,
                                                   !.obs.fileStage = TRUE],
                                          OfTotal(ProgressEv("parsing", <<>>, 0), n))))
               ELSE Step(r, catch(s))
    /\ Noticed(r)
    /\ UNCHANGED <<db, tailwindClasses, now, ticks>>

\* a read that lets a failure of getFileContent escape (variant used for C19)
C19_ReadThrows(onDisk) == [threw |-> onDisk = NoContent, content |-> onDisk]

\* `await repoAnalysis.getFileContent(file.path)`: getFileContentLocal catches
\* the failure of readFile and returns null, so the await never rejects
getFileContent(onDisk) == [threw |-> FALSE, content |-> onDisk]

\* getFileContent returns what the snapshot holds under the path (null for
\* a file that cannot be read: its text is not kept), then the update of
\* processed_files, the file-processed event and the next file.  The read
\* touches only the run's own snapshot, so it is taken together with the
\* store statement that follows it.
ReadFile(r) ==
    /\ runs[r].pc = "readFile"
    /\ \E c \in Conn(r), ok \in StoreOutcomes(r) :
         LET file == c.loc.eligibleFiles[c.loc.filesProcessed + 1].path
             read == getFileContent(c.loc.eligibleFiles[c.loc.filesProcessed + 1].content)
             s == [c EXCEPT !.loc.filesToProcess =
                                IF read.content # NoContent
                                THEN Append(@, [name |-> file, content |-> read.content])
                                ELSE @,
                            !.loc.filesProcessed = @ + 1]
         IN IF read.threw
            THEN /\ ok
                 /\ UNCHANGED <<faults, repositories>>
                 /\ Step(r, catch(c))
            ELSE /\ Outcome(ok)
                 /\ repositories' =
                       IF ok THEN setProcessed(repositories, s.loc.repoRecord.id,
                                               s.loc.filesProcessed)
                       ELSE repositories
                 /\ IF ok
                    THEN Step(r, loopHead(emit([s EXCEPT !.obs.wrote = TRUE],
                                               OfTotal(FileProcessedEv(file,
                                                                       s.loc.filesProcessed),
                                                       Len(s.loc.eligibleFiles)))))
                    ELSE Step(r, catch(s))
    /\ Noticed(r)
    /\ UNCHANGED <<db, tailwindClasses, now, ticks>>

\* the delete of the repository's class rows
DeleteRows(r) ==
    /\ runs[r].pc = "deleteRows"
    /\ \E c \in Conn(r), ok \in StoreOutcomes(r) :
         LET s == c
         IN /\ Outcome(ok)
            /\ tailwindClasses' =
                  IF ok THEN deleteClasses(tailwindClasses, s.loc.repoRecord.id)
                  ELSE tailwindClasses
            /\ IF ok
               THEN Step(r, [s EXCEPT !.obs.wrote = TRUE, !.obs.wroteClasses = TRUE,
                                      !.loc.batchI = 0,
                                      !.pc = IF Len(s.loc.classCounts) > 0
                                             THEN "insertBatch" ELSE "setCompleted"])
               ELSE Step(r, catch(s))
    /\ Noticed(r)
    /\ UNCHANGED <<db, repositories, now, ticks>>

\* one batch insert of class rows and its progress event
InsertBatch(r) ==
    /\ runs[r].pc = "insertBatch"
    /\ \E c \in Conn(r), ok \in StoreOutcomes(r) :
         LET s == c
             rows == classRows(s.loc.repoRecord.id, s.loc.classCounts)
             i == s.loc.batchI + BATCH_SIZE
         IN /\ Outcome(ok)
            /\ tailwindClasses' =
                  IF ok THEN tailwindClasses \o batch(rows, s.loc.batchI)
                  ELSE tailwindClasses
            /\ IF ok
               THEN Step(r, settle(emit([s EXCEPT !.obs.wrote = TRUE,
                                                 !.obs.wroteClasses = TRUE,
                                                 !.loc.batchI = i],
                                        ProgressEv("saving", <<"Saving batch">>, NullInt)),
                                   IF i < Len(rows) THEN "insertBatch"
                                   ELSE "setCompleted"))
               ELSE Step(r, catch(s))
    /\ Noticed(r)
    /\ UNCHANGED <<db, repositories, now, ticks>>

\* the update to completed, then cleanup() of the snapshot
SetCompleted(r) ==
    /\ runs[r].pc = "setCompleted"
    /\ \E c \in Conn(r), ok \in StoreOutcomes(r) :
         LET s == c
         IN /\ Outcome(ok)
            /\ repositories' =
                  IF ok THEN markCompleted(repositories, s.loc.repoRecord.id,
                                           total(s.loc.classCounts), now)
                  ELSE repositories
            /\ IF ok
               THEN Step(r, [s EXCEPT !.obs.wrote = TRUE,
                                      !.obs.lastStatusWritten = "completed",
                                      !.obs.files = s.loc.eligibleFiles,
                                      !.obs.cleanups = @ + 1, !.pc = "reselect"])
               ELSE Step(r, catch(s))
    /\ Noticed(r)
    /\ UNCHANGED <<db, tailwindClasses, now, ticks>>

\* the select of the updated record, the completed event, close
Reselect(r) ==
    /\ runs[r].pc = "reselect"
    /\ \E c \in Conn(r), ok \in StoreOutcomes(r) :
         LET s == c
         IN /\ Outcome(ok)
            /\ IF ok
               THEN Step(r, finish(s, CompletedEv(
                                selectById(repositories, s.loc.repoRecord.id),
                                s.loc.classCounts)))
               ELSE Step(r, catch(s))
    /\ Noticed(r)
    /\ UNCHANGED <<db, repositories, tailwindClasses, now, ticks>>

\* catch block with a record: releaseProcessingLock(repoRecord.id, 'failed')
\* (a failure of its update is logged and swallowed), then the error event
Release(r) ==
    /\ runs[r].pc = "release"
    /\ \E c \in Conn(r), ok \in StoreOutcomes(r) :
         LET s == c
         IN /\ Outcome(ok)
            /\ repositories' =
                  IF ok THEN releaseProcessingLock(repositories, s.loc.repoRecord.id,
                                                   "failed", now)
                  ELSE repositories
            /\ IF ok
               THEN Step(r, catchEmit([s EXCEPT !.obs.wrote = TRUE,
                                               !.obs.lastStatusWritten = "failed"]))
               ELSE Step(r, catchEmit(s))
    /\ Noticed(r)
    /\ UNCHANGED <<db, tailwindClasses, now, ticks>>

\* the .catch of the route: emit and close on the stream that just threw
RouteCatch(r) ==
    /\ runs[r].pc = "routeCatch"
    /\ LET e == close(emit(runs[r], ErrorEv(MsgRouteFailed)))
       IN Step(r, ret([e EXCEPT !.obs.unhandled = e.loc.exc]))
    /\ UNCHANGED <<db, repositories, tailwindClasses, now, ticks, faults>>

\* time passes: long enough for a lock to go stale and for a cache to expire
TickSteps == {CacheMinutes}

Tick ==
    /\ ticks < MaxTicks
    /\ \E r \in Runs : runs[r].pc # "done"
    /\ \E d \in TickSteps : now' = now + d
    /\ ticks' = ticks + 1
    /\ UNCHANGED <<db, repositories, tailwindClasses, faults, runs>>
    /\ UNCHANGED <<acqs, disk, wall, remote, calc>>

Next ==
    \/ \E r \in Runs : Start(r)
    \/ \E r \in Runs : Lookup(r)
    \/ \E r \in Runs : CacheRead(r)
    \/ \E r \in Runs : LockCleanup(r)
    \/ \E r \in Runs : LockSelect(r)
    \/ \E r \in Runs : LockUpdate(r)
    \/ \E r \in Runs : CloneNew(r)
    \/ \E r \in Runs : CloneExisting(r)
    \/ \E r \in Runs : InsertIneligible(r)
    \/ \E r \in Runs : InsertNew(r)
    \/ \E r \in Runs : UpdateIneligible(r)
    \/ \E r \in Runs : SetTotals(r)
    \/ \E r \in Runs : ReadFile(r)
    \/ \E r \in Runs : DeleteRows(r)
    \/ \E r \in Runs : InsertBatch(r)
    \/ \E r \in Runs : SetCompleted(r)
    \/ \E r \in Runs : Reselect(r)
    \/ \E r \in Runs : Release(r)
    \/ \E r \in Runs : RouteCatch(r)
    \/ Tick

Spec == Init /\ [][Next]_vars

\* ------------------------------------------------------------------------
\* The acquirer (git-clone.ts): analyzeRepositoryLocal(owner, repo), its
\* remote git operations and their timers.  Time is counted in seconds.
\* ------------------------------------------------------------------------
\* withTimeout(execAsync(`git ls-remote --symref ...`), 30000, ...)
SymrefTimeout == 30
\* withTimeout(execAsync(`git ls-remote --heads ...`), 15000, ...)
ProbeTimeout == 15
\* withTimeout(execAsync(cloneCommand), 120000, 'git clone')
CloneTimeout == 120
\* an operation that is awaited without a timer
NoTimer == 0 - 1

\* number of advances of Date.now() in one behaviour
MaxWall == 1

\* const commonBranches = ['main', 'master', 'develop']
commonBranches == <<"main", "master", "develop">>

\* the repositories the acquirer is asked for
Keys == {<<"o", "a">>, <<"o", "b">>}

\* the states of the repository on the server
Remotes ==
    { [head |-> "main", heads |-> {"main", "develop"}],
      [head |-> "trunk", heads |-> {"trunk", "master"}],
      [head |-> "", heads |-> {"master", "develop"}],
      [head |-> "", heads |-> {"trunk"}] }

\* join(tmpdir(), `tallywind-${owner}-${repo}-${Date.now()}`)
tempDirOf(key, t) == <<"tallywind", key[1], key[2], t>>

\* a clone without a timer (variant used for C21)
C21_CloneWithoutTimer(operation) ==
    CASE operation = "git ls-remote --symref" -> SymrefTimeout
      [] operation = "git ls-remote --heads" -> ProbeTimeout
      [] OTHER -> NoTimer

\* withTimeout(promise, timeoutMs, operation): the time after which the
\* timer rejects the race
withTimeout(operation) ==
    CASE operation = "git ls-remote --symref" -> SymrefTimeout
      [] operation = "git ls-remote --heads" -> ProbeTimeout
      [] operation = "git clone" -> CloneTimeout
      [] OTHER -> NoTimer

\* the timer of the pending operation has fired
timedOut(q, operation) == [q EXCEPT !.elapsed = @ + withTimeout(operation)]

\* getDefaultBranch returns b: to cloneRepository (targetBranch) before the
\* clone, to analyzeRepositoryLocal (actualBranch) after it
returnBranch(q, b) ==
    LET c == [q EXCEPT !.lastCall = [symref |-> q.symref, probed |-> q.probed,
                                     returned |-> b],
                       !.symref = "", !.probed = <<>>, !.probe = 0]
    IN IF q.phase = "before"
       THEN [c EXCEPT !.targetBranch = b, !.pc = "clone"]
       ELSE [c EXCEPT !.defaultBranch = b, !.result = "handle", !.pc = "returned"]

\* the probe of commonBranches[q.probe] did not find the branch (empty
\* answer, error or timeout): the next branch, or the final fallback
nextProbe(q, outcome) ==
    LET p == [q EXCEPT !.probed = Append(@, <<commonBranches[q.probe], outcome>>)]
    IN IF q.probe < Len(commonBranches)
       THEN [p EXCEPT !.probe = @ + 1]
       ELSE returnBranch(p, "main")

\* Invocations are interchangeable.  a1 is the invocation under observation:
\* the server's adversity (an operation that fails or never answers) strikes
\* a1, and a2 is the concurrent invocation, whose operations are answered.
Adverse(a) == a = "a1"

Acq(a, q) ==
    /\ acqs' = [acqs EXCEPT ![a] = q]
    /\ UNCHANGED <<db, repositories, tailwindClasses, now, ticks, faults, runs, calc>>

\* analyzeRepositoryLocal(owner, repo) -> cloneRepository: the directory is
\* named, then getDefaultBranch starts its first query
StartAcquire(a) ==
    /\ acqs[a].pc = "idle"
    /\ \E key \in Keys :
         Acq(a, [acqs[a] EXCEPT !.key = key, !.tempDir = tempDirOf(key, wall),
                                !.phase = "before", !.pc = "symref"])
    /\ UNCHANGED <<disk, wall, remote>>

\* git ls-remote --symref answers: with the ref line of HEAD, or without one
SymrefAnswers(a) ==
    /\ acqs[a].pc = "symref"
    /\ Acq(a, IF remote.head # ""
              THEN returnBranch([acqs[a] EXCEPT !.symref = "ref"], remote.head)
              ELSE [acqs[a] EXCEPT !.symref = "noref", !.probe = 1, !.pc = "probe"])
    /\ UNCHANGED <<disk, wall, remote>>

\* git ls-remote --symref exits with an error: the outer catch returns 'main'
SymrefFails(a) ==
    /\ acqs[a].pc = "symref"
    /\ Adverse(a)
    /\ Acq(a, returnBranch([acqs[a] EXCEPT !.symref = "error"], "main"))
    /\ UNCHANGED <<disk, wall, remote>>

\* the 30 s timer rejects first: the outer catch returns 'main'
SymrefTimesOut(a) ==
    /\ acqs[a].pc = "symref"
    /\ Adverse(a)
    /\ withTimeout("git ls-remote --symref") # NoTimer
    /\ Acq(a, returnBranch(timedOut([acqs[a] EXCEPT !.symref = "timeout"],
                                    "git ls-remote --symref"), "main"))
    /\ UNCHANGED <<disk, wall, remote>>

\* git ls-remote --heads <branch> answers: a line when the branch exists
ProbeAnswers(a) ==
    /\ acqs[a].pc = "probe"
    /\ LET branch == commonBranches[acqs[a].probe]
       IN Acq(a, IF branch \in remote.heads
                 THEN returnBranch([acqs[a] EXCEPT !.probed = Append(@, <<branch, "found">>)],
                                   branch)
                 ELSE nextProbe(acqs[a], "empty"))
    /\ UNCHANGED <<disk, wall, remote>>

\* the probe exits with an error: `catch { /* next branch */ }`
ProbeFails(a) ==
    /\ acqs[a].pc = "probe"
    /\ Adverse(a)
    /\ Acq(a, nextProbe(acqs[a], "error"))
    /\ UNCHANGED <<disk, wall, remote>>

\* the 15 s timer of the probe rejects first
ProbeTimesOut(a) ==
    /\ acqs[a].pc = "probe"
    /\ Adverse(a)
    /\ withTimeout("git ls-remote --heads") # NoTimer
    /\ Acq(a, nextProbe(timedOut(acqs[a], "git ls-remote --heads"), "timeout"))
    /\ UNCHANGED <<disk, wall, remote>>

\* git clone --branch=targetBranch ends well: the directory is populated.
\* Into a directory that another clone has populated git refuses to clone,
\* unless the two clones ran at the same time: then either can end well.
CloneSucceeds(a) ==
    /\ acqs[a].pc = "clone"
    /\ acqs[a].targetBranch \in remote.heads
    /\ disk' = disk \cup {acqs[a].tempDir}
    /\ Acq(a, [acqs[a] EXCEPT !.pc = "local", !.lastCall = NoBranchCall])
    /\ UNCHANGED <<wall, remote>>

\* git clone exits with an error: cloneRepository returns null
CloneFails(a) ==
    /\ acqs[a].pc = "clone"
    /\ Acq(a, [acqs[a] EXCEPT !.result = "null", !.pc = "returned",
                               !.lastCall = NoBranchCall])
    /\ UNCHANGED <<disk, wall, remote>>

\* the 120 s timer rejects first: cloneRepository returns null
CloneTimesOut(a) ==
    /\ acqs[a].pc = "clone"
    /\ Adverse(a)
    /\ withTimeout("git clone") # NoTimer
    /\ Acq(a, [timedOut(acqs[a], "git clone") EXCEPT !.result = "null",
                                                     !.pc = "returned",
                                                     !.lastCall = NoBranchCall])
    /\ UNCHANGED <<disk, wall, remote>>

\* Promise.all([getAllFilesLocal, checkRepositoryEligibilityLocal]): both read
\* the local directory and catch their own failures; then getDefaultBranch
\* is called again for actualBranch
Local(a) ==
    /\ acqs[a].pc = "local"
    /\ Acq(a, [acqs[a] EXCEPT !.phase = "after", !.pc = "symref"])
    /\ UNCHANGED <<disk, wall, remote>>

\* the cleanup() of the handle: rm(tempDir, { recursive: true, force: true })
Cleanup(a) ==
    /\ acqs[a].pc = "returned" /\ acqs[a].result = "handle" /\ ~acqs[a].cleaned
    /\ disk' = disk \ {acqs[a].tempDir}
    /\ Acq(a, [acqs[a] EXCEPT !.cleaned = TRUE, !.lastCall = NoBranchCall])
    /\ UNCHANGED <<wall, remote>>

\* a millisecond passes
WallTick ==
    /\ wall < MaxWall
    /\ wall' = wall + 1
    /\ UNCHANGED <<db, repositories, tailwindClasses, now, ticks, faults, runs, calc>>
    /\ UNCHANGED <<acqs, disk, remote>>

InitAcquire ==
    /\ db = TRUE /\ repositories = <<>> /\ tailwindClasses = <<>>
    /\ now = Epoch /\ ticks = 0 /\ faults = 0
    /\ runs = [r \in Runs |-> InitRun]
    /\ acqs = [a \in Acqs |-> InitAcq]
    /\ disk = {}
    /\ wall = 0
    /\ remote \in Remotes
    /\ calc = NoCall

TimerFires(a) == SymrefTimesOut(a) \/ ProbeTimesOut(a) \/ CloneTimesOut(a)
ServerAnswers(a) ==
    SymrefAnswers(a) \/ ProbeAnswers(a) \/ CloneSucceeds(a) \/ CloneFails(a)

NextAcquire ==
    \/ \E a \in Acqs : StartAcquire(a)
    \/ \E a \in Acqs : SymrefAnswers(a)
    \/ \E a \in Acqs : SymrefFails(a)
    \/ \E a \in Acqs : SymrefTimesOut(a)
    \/ \E a \in Acqs : ProbeAnswers(a)
    \/ \E a \in Acqs : ProbeFails(a)
    \/ \E a \in Acqs : ProbeTimesOut(a)
    \/ \E a \in Acqs : CloneSucceeds(a)
    \/ \E a \in Acqs : CloneFails(a)
    \/ \E a \in Acqs : CloneTimesOut(a)
    \/ \E a \in Acqs : Local(a)
    \/ \E a \in Acqs : Cleanup(a)
    \/ WallTick

\* A timer that setTimeout has armed fires, and the reads of the local
\* directory return; no answer of the server is assumed for the invocation
\* under observation.
SpecAcquire ==
    /\ InitAcquire
    /\ [][NextAcquire]_vars
    /\ \A a \in Acqs : /\ WF_vars(TimerFires(a))
                        /\ WF_vars(Local(a))
                        /\ WF_vars(~Adverse(a) /\ ServerAnswers(a))

\* ------------------------------------------------------------------------
\* checkRepositoryEligibilityLocal (git-clone.ts) as a function of what is
\* on disk under package.json
\* ------------------------------------------------------------------------
\* the value of a field of the manifest: absent, null, a string (empty or
\* not), an array, or an object with the given keys
Absent == [kind |-> "absent", keys |-> {}]
DependencyNames == {"tailwindcss", "@tailwindcss/cli", "react"}
FieldValues ==
    {Absent, [kind |-> "null", keys |-> {}], [kind |-> "empty string", keys |-> {}],
     [kind |-> "string", keys |-> {}], [kind |-> "array", keys |-> {}]}
    \cup {[kind |-> "object", keys |-> k] : k \in SUBSET DependencyNames}

\* package.json: missing, not JSON, or a JSON value
Manifest(file, top, dependencies, devDependencies) ==
    [file |-> file, top |-> top, dependencies |-> dependencies,
     devDependencies |-> devDependencies]
Manifests ==
    {Manifest("missing", "", Absent, Absent), Manifest("not json", "", Absent, Absent),
     Manifest("json", "null", Absent, Absent), Manifest("json", "string", Absent, Absent),
     Manifest("json", "array", Absent, Absent)}
    \cup {Manifest("json", "object", d, v) : d \in FieldValues, v \in FieldValues}

\* `packageJson.dependencies || {}`: a falsy value is replaced by {}
orEmpty(value) ==
    IF value.kind \in {"absent", "null", "empty string"}
    THEN [kind |-> "object", keys |-> {}] ELSE value

\* `name in value`: a TypeError on a primitive, else whether it is a key
in(name, value) ==
    IF value.kind = "string" THEN "throws"
    ELSE IF name \in value.keys THEN "true" ELSE "false"

\* a || b, each either "true", "false" or "throws", b evaluated only when a
\* is false
or(a, b) == IF a = "false" THEN b ELSE a

Verdict(isEligible, hasTailwind, packageJsonExists, reason) ==
    [isEligible |-> isEligible, hasTailwind |-> hasTailwind,
     packageJsonExists |-> packageJsonExists, reason |-> reason]

\* readFile and JSON.parse throw for a missing file and for text that is
\* not JSON, and reading a property of null throws: the inner catch answers
\* 'No package.json found', as it does when `in` throws
checkRepositoryEligibilityLocal(m) ==
    IF m.file # "json" \/ m.top = "null"
    THEN Verdict(FALSE, FALSE, FALSE, ReasonNoPackage)
    ELSE LET dependencies == orEmpty(IF m.top = "object" THEN m.dependencies ELSE Absent)
             devDependencies ==
                 orEmpty(IF m.top = "object" THEN m.devDependencies ELSE Absent)
             hasTailwind ==
                 or(in("tailwindcss", dependencies),
                    or(in("tailwindcss", devDependencies),
                       or(in("@tailwindcss/cli", dependencies),
                          in("@tailwindcss/cli", devDependencies))))
         IN CASE hasTailwind = "throws" -> Verdict(FALSE, FALSE, FALSE, ReasonNoPackage)
              [] hasTailwind = "false" -> Verdict(FALSE, FALSE, TRUE, ReasonNoTailwind)
              [] OTHER -> Verdict(TRUE, TRUE, TRUE, "")

NoVerdict == Verdict(FALSE, FALSE, FALSE, "<pending>")

\* the call returns
CheckEligibility ==
    /\ calc.fn = "checkRepositoryEligibilityLocal"
    /\ calc.output = NoVerdict
    /\ calc' = [calc EXCEPT !.output = checkRepositoryEligibilityLocal(calc.input)]
    /\ UNCHANGED <<db, repositories, tailwindClasses, now, ticks, faults, runs>>
    /\ UNCHANGED <<acqs, disk, wall, remote>>

\* the pipeline and the acquirer at rest
AtRest ==
    /\ db = TRUE /\ repositories = <<>> /\ tailwindClasses = <<>>
    /\ now = Epoch /\ ticks = 0 /\ faults = 0
    /\ runs = [r \in Runs |-> InitRun]
    /\ GitIdle

InitEligibility ==
    /\ AtRest
    /\ \E m \in Manifests :
         calc = [fn |-> "checkRepositoryEligibilityLocal", input |-> m,
                 output |-> NoVerdict]

SpecEligibility == InitEligibility /\ [][CheckEligibility]_vars

\* ------------------------------------------------------------------------
\* tailwind-parser.ts called directly: shouldParseFile, extractClasses and
\* countTailwindClasses on given files, the two /g patterns kept between
\* calls
\* ------------------------------------------------------------------------
MaxCalls == 2

PathPieces == {"src/", "ca", "bin/", "Node_Modules/", "a", "api", ".ts", ".js", "x",
               ".html", ".HTML", ".solid", "yarn.lock"}
Paths == UNION {[1..n -> PathPieces] : n \in 1..3}

Contents ==
    { <<>>, <<Attr(<<"p-4", "m-2">>)>>, <<Attr(<<"constructor">>)>>,
      <<Call(<< <<"flex", "", "flex">> >>), Other(<< <<"m-2">> >>), Attr(<<"flex">>)>> }

File(name, content) == [name |-> name, content |-> content]

\* one file under any path, or two files of a few paths with any content
FilesGiven ==
    {<<File(p, <<Attr(<<"p-4", "m-2">>)>>)>> : p \in Paths}
    \cup {<<File(p, c), File(q, d)>> :
             p \in {AHtml, BJs}, q \in {BJsx, <<"Node_Modules/", "a", ".html">>},
             c \in Contents, d \in Contents}

Called(fn, arg, out) ==
    /\ calc.fn = "tailwind-parser"
    /\ Len(calc.calls) < MaxCalls
    /\ calc' = [calc EXCEPT !.calls = Append(@, [fn |-> fn, arg |-> arg, out |-> out])]
    /\ UNCHANGED <<db, repositories, tailwindClasses, now, ticks, faults, runs>>
    /\ UNCHANGED <<acqs, disk, wall, remote>>

CallShouldParseFile ==
    \E i \in DOMAIN calc.files :
        Called("shouldParseFile", i, shouldParseFile(calc.files[i].name))

CallExtractClasses ==
    /\ calc.fn = "tailwind-parser"
    /\ Len(calc.calls) < MaxCalls
    /\ \E i \in DOMAIN calc.files :
         LET extracted == extractClassesFrom(calc.files[i].content, calc.lastIndex)
         IN calc' = [calc EXCEPT !.lastIndex = extracted.lastIndex,
                                 !.calls = Append(@, [fn |-> "extractClasses", arg |-> i,
                                                      out |-> extracted.classes])]
    /\ UNCHANGED <<db, repositories, tailwindClasses, now, ticks, faults, runs>>
    /\ UNCHANGED <<acqs, disk, wall, remote>>

CallCountTailwindClasses ==
    /\ calc.fn = "tailwind-parser"
    /\ Len(calc.calls) < MaxCalls
    /\ LET counted == countFrom(NoCounts, calc.lastIndex, calc.files)
       IN calc' = [calc EXCEPT !.lastIndex = counted.lastIndex,
                               !.calls = Append(@, [fn |-> "countTailwindClasses",
                                                    arg |-> 0, out |-> counted.counts])]
    /\ UNCHANGED <<db, repositories, tailwindClasses, now, ticks, faults, runs>>
    /\ UNCHANGED <<acqs, disk, wall, remote>>

InitParser ==
    /\ AtRest
    /\ \E files \in FilesGiven :
         calc = [fn |-> "tailwind-parser", files |-> files, lastIndex |-> AtStart,
                 calls |-> <<>>]

NextParser == CallShouldParseFile \/ CallExtractClasses \/ CallCountTailwindClasses

SpecParser == InitParser /\ [][NextParser]_vars

\* ------------------------------------------------------------------------
\* formatTailwindStats (repository.ts) on given count maps
\* ------------------------------------------------------------------------
ClassNames ==
    << "p-4", "m-2", "flex", "gap-2", "grid", "block", "hidden", "w-full", "h-full",
       "text-sm", "text-lg", "font-bold", "rounded", "border", "shadow", "mt-4",
       "mb-4", "px-2", "py-2", "items-center", "justify-between", "bg-white" >>

\* how often the i-th class of a map occurs, in three shapes: all the same,
\* growing with i, and two values in turn
Shapes == {"flat", "rising", "alternating"}
countIn(shape, i) ==
    CASE shape = "flat" -> 1
      [] shape = "rising" -> i
      [] OTHER -> 1 + (i % 2)

\* count maps in insertion order: the first n class names in one of the
\* shapes, and maps in which names that are array indices come late
CountMaps ==
    {[i \in 1..n |-> [class_name |-> ClassNames[i], count |-> countIn(shape, i)]] :
        n \in 0..Len(ClassNames), shape \in Shapes}
    \cup {<< [class_name |-> "p-4", count |-> a], [class_name |-> "10", count |-> b],
             [class_name |-> "m-2", count |-> c], [class_name |-> "2", count |-> d] >> :
             a \in 1..2, b \in 1..2, c \in 1..2, d \in 1..2}

NoStats == [repo |-> NullRepo, classCounts |-> NoCounts, total |-> NullInt,
            topClasses |-> <<>>]

CallFormatTailwindStats ==
    /\ calc.fn = "formatTailwindStats"
    /\ calc.output = NoStats
    /\ calc' = [calc EXCEPT !.output = formatTailwindStats(NullRepo, calc.input)]
    /\ UNCHANGED <<db, repositories, tailwindClasses, now, ticks, faults, runs>>
    /\ UNCHANGED <<acqs, disk, wall, remote>>

InitFormat ==
    /\ AtRest
    /\ \E counts \in CountMaps :
         calc = [fn |-> "formatTailwindStats", input |-> counts, output |-> NoStats]

SpecFormat == InitFormat /\ [][CallFormatTailwindStats]_vars

\* ------------------------------------------------------------------------
\* The batched save of the class counts (repository.ts), on its own: the
\* delete, the rows built from the count map, and the loop of inserts, for
\* count maps large enough to need several statements
\* ------------------------------------------------------------------------
\* largest number of classes in a count map
MaxClasses == 250

\* a count map of n classes, in insertion order; the k-th class name is
\* written k
CountsOfSize(n) == [k \in 1..n |-> [class_name |-> k, count |-> 1 + (k % 3)]]

\* the delete returns: the rows are built, and the loop is entered when
\* there is a row
DeleteReturns ==
    /\ calc.fn = "saveClassCounts"
    /\ calc.pc = "delete"
    /\ LET rows == classRows(1, calc.classCounts)
       IN calc' = [calc EXCEPT !.classRows = rows,
                               !.i = 0,
                               !.pc = IF Len(rows) > 0 THEN "insert" ELSE "saved"]
    /\ UNCHANGED <<db, repositories, tailwindClasses, now, ticks, faults, runs>>
    /\ UNCHANGED <<acqs, disk, wall, remote>>

\* one insert of the loop returns: the statement is recorded, i += BATCH_SIZE,
\* and the loop condition is tested
InsertReturns ==
    /\ calc.fn = "saveClassCounts"
    /\ calc.pc = "insert"
    /\ LET i == calc.i + BATCH_SIZE
       IN calc' = [calc EXCEPT !.statements = Append(@, batch(calc.classRows, calc.i)),
                               !.i = i,
                               !.pc = IF i < Len(calc.classRows) THEN "insert"
                                      ELSE "saved"]
    /\ UNCHANGED <<db, repositories, tailwindClasses, now, ticks, faults, runs>>
    /\ UNCHANGED <<acqs, disk, wall, remote>>

\* one insert of the loop is rejected by the store: the exception leaves the
\* loop
InsertThrows ==
    /\ calc.fn = "saveClassCounts"
    /\ calc.pc = "insert"
    /\ calc' = [calc EXCEPT !.pc = "threw"]
    /\ UNCHANGED <<db, repositories, tailwindClasses, now, ticks, faults, runs>>
    /\ UNCHANGED <<acqs, disk, wall, remote>>

InitSave ==
    /\ AtRest
    /\ \E n \in 0..MaxClasses :
         calc = [fn |-> "saveClassCounts", classCounts |-> CountsOfSize(n),
                 classRows |-> <<>>, i |-> 0, statements |-> <<>>, pc |-> "delete"]

NextSave == DeleteReturns \/ InsertReturns \/ InsertThrows

SpecSave == InitSave /\ [][NextSave]_vars

\* ------------------------------------------------------------------------
\* Properties
\* ------------------------------------------------------------------------
\* A statement that a run emits an event is read for a run whose observer
\* stayed connected (Connected); what a run does once its observer has gone
\* is the subject of C5.
Terminal(ev) == ev.type \in {"completed", "error"}
TerminalCount(r) ==
    Cardinality({i \in DOMAIN runs[r].events : Terminal(runs[r].events[i])})
Ended(r) == runs[r].pc = "done"
Connected(r) == runs[r].obs.callsOnClosed = 0
LastEvent(r) ==
    IF runs[r].events = <<>> THEN Ev("", "", <<>>, NullInt)
    ELSE runs[r].events[Len(runs[r].events)]
Emitted(r, ev) == \E i \in DOMAIN runs[r].events : runs[r].events[i] = ev

\* the run's lookup found a record that may be taken over
SawReclaimable(r) ==
    \/ runs[r].obs.seenStatus \in {"failed", "ineligible"}
    \/ runs[r].obs.seenStatus = "completed" /\ runs[r].obs.seenAge >= CacheMinutes

\* tryAcquireProcessingLock returned the record to the run, which has not
\* yet released it
HoldsLock(r) == runs[r].obs.lockedBy = "update" /\ runs[r].loc.repoRecord.id # 0

\* C1: two concurrent runs on one URL whose record is reclaimable (failed,
\* ineligible, completed for 48 hours or more) never both get the record from
\* tryAcquireProcessingLock: at no moment do both hold the lock on it.
C1_NeverBothAcquire ==
    \A r, q \in Runs :
        (/\ r # q
         /\ ticks = 0
         /\ runs[r].repoUrl = runs[q].repoUrl
         /\ SawReclaimable(r) /\ SawReclaimable(q))
        => ~(HoldsLock(r) /\ HoldsLock(q))

\* at most one row of table repositories per url
OneRecordPerUrl ==
    \A i, j \in Ids(repositories) :
        repositories[i].url = repositories[j].url => i = j

\* C2 as stated: at most one record per URL; of the runs that start
\* concurrently for a URL without a record at most one inserts the record and
\* reaches file processing, and once one has inserted, every other one ends
\* with an error event, having written no record and no class-count row.
C2_OthersEndWithError ==
    /\ OneRecordPerUrl
    /\ \A r, q \in Runs :
        (/\ r # q
         /\ runs[r].repoUrl = runs[q].repoUrl
         /\ runs[r].obs.seenStatus = "none" /\ runs[q].obs.seenStatus = "none")
        => /\ ~(runs[r].obs.inserted /\ runs[q].obs.inserted)
           /\ ~(runs[r].obs.fileStage /\ runs[q].obs.fileStage)
           /\ (runs[q].obs.inserted /\ Ended(r) /\ Connected(r))
              => /\ LastEvent(r).type = "error"
                 /\ ~runs[r].obs.wrote
                 /\ ~runs[r].obs.wroteClasses

\* C2, amended: at most one record per URL; at most one run inserts the
\* record of a URL; a run whose insert the unique constraint rejects inserts no
\* record, reaches no file processing, writes no class-count row and emits no
\* completed event.
C2_OneRecordPerUrl ==
    /\ OneRecordPerUrl
    /\ \A r, q \in Runs :
        (r # q /\ runs[r].obs.inserted /\ runs[q].obs.inserted)
        => runs[r].repoUrl # runs[q].repoUrl
    /\ \A r \in Runs :
        runs[r].obs.rejected
        => /\ ~runs[r].obs.inserted
           /\ ~runs[r].obs.fileStage
           /\ ~runs[r].obs.wroteClasses
           /\ runs[r].obs.lockedId = 0
           /\ \A i \in DOMAIN runs[r].events : runs[r].events[i].type # "completed"

\* two runs started for a URL without a record; one inserted it, the insert
\* of the other was rejected and that run has ended
C2_Witness ==
    \E r, q \in Runs :
        /\ r # q
        /\ runs[r].obs.seenStatus = "none" /\ runs[q].obs.seenStatus = "none"
        /\ runs[q].obs.inserted
        /\ runs[r].obs.rejected /\ Ended(r)
        /\ LastEvent(r) = ErrorEv(MsgException)
\* C3: a run whose lookup finds the record processing with a
\* processing_started_at more than 10 minutes old reclaims it (takes the lock)
\* and emits no conflict error; one that finds it less than 10 minutes old
\* ends with the conflict error.
C3_StaleLockReclaimed ==
    \A r \in Runs :
        (Ended(r) /\ Connected(r) /\ runs[r].obs.seenStatus = "processing")
        => /\ runs[r].obs.seenLockAge > StaleMinutes
              => /\ ~Emitted(r, ErrorEv(MsgConflict))
                 /\ runs[r].obs.lockedBy = "update"
           /\ runs[r].obs.seenLockAge < StaleMinutes
              => LastEvent(r) = ErrorEv(MsgConflict)

\* C4: a run whose lookup finds the record completed for less than 48 hours
\* ends with a completed event that carries the persisted class counts, and
\* has made no clone and no store write; one that finds it completed for 48
\* hours or more takes the lock and clones.
C4_CacheWindow ==
    \A r \in Runs :
        (Ended(r) /\ Connected(r) /\ runs[r].obs.seenStatus = "completed")
        => /\ runs[r].obs.seenAge < CacheMinutes
              => /\ LastEvent(r).type = "completed"
                 /\ LastEvent(r).classCounts = runs[r].obs.countsAtRead
                 /\ runs[r].obs.clones = 0
                 /\ ~runs[r].obs.wrote /\ ~runs[r].obs.wroteClasses
           /\ runs[r].obs.seenAge >= CacheMinutes
              => /\ runs[r].obs.lockedBy = "update"
                 /\ runs[r].obs.clones = 1

\* C5: a run that has ended has emitted exactly one terminal event, as its
\* last event, has closed the stream exactly once, and has never called emit
\* or close on the closed stream.
C5_OneTerminalOneClose ==
    \A r \in Runs :
        Ended(r)
        => /\ TerminalCount(r) = 1
           /\ Terminal(LastEvent(r))
           /\ runs[r].obs.closes = 1
           /\ runs[r].obs.callsOnClosed = 0

\* C6: a run that threw while it held a record (locked or inserted as
\* processing) has set it to failed when it ends, and no run that has ended
\* has left the record it held in processing.
C6_NoRecordLeftProcessing ==
    \A r \in Runs :
        Ended(r)
        => /\ runs[r].obs.threwHolding => runs[r].obs.lastStatusWritten = "failed"
           /\ runs[r].obs.lockedId # 0 => runs[r].obs.lastStatusWritten # "processing"

\* C7: a run whose clone failed ends with an error event, has inserted no
\* record and written no class-count row, and, if it had taken the lock on
\* an existing record, has released it as failed.
C7_CloneFailureReleasesLock ==
    \A r \in Runs :
        (Ended(r) /\ runs[r].obs.clones = 1 /\ runs[r].obs.handles = 0)
        => /\ Connected(r) => LastEvent(r).type = "error"
           /\ ~runs[r].obs.inserted
           /\ ~runs[r].obs.wroteClasses
           /\ runs[r].obs.lockedBy = "update" => runs[r].obs.lastStatusWritten = "failed"

\* C8: in every state of the store a record has a processing_started_at iff
\* its status is processing.
C8_StampIffProcessing ==
    \A i \in Ids(repositories) :
        (repositories[i].processing_started_at # NullTime)
        <=> (repositories[i].status = "processing")

\* one record is processing, held by the run that stamped it, another one
\* was released as failed by the run that held it
C8_Witness ==
    \E r, q \in Runs :
        /\ runs[r].loc.repoRecord.id # 0
        /\ repositories[runs[r].obs.lockedId].status = "processing"
        /\ repositories[runs[r].obs.lockedId].processing_started_at = now
        /\ runs[q].obs.lockedId # 0
        /\ runs[q].obs.lastStatusWritten = "failed"
        /\ repositories[runs[q].obs.lockedId].status = "failed"
        /\ repositories[runs[q].obs.lockedId].processing_started_at = NullTime

\* C9: a run that got a snapshot from the acquirer has called its cleanup()
\* exactly once when it ends.
C9_CleanupExactlyOnce ==
    \A r \in Runs :
        (Ended(r) /\ runs[r].obs.handles = 1) => runs[r].obs.cleanups = 1

\* C10: a run whose lookup finds the record processing goes no further: it
\* makes no store write, takes no lock and makes no clone, and it ends with
\* the conflict error as its only terminal event.
C10_ConflictHasNoEffect ==
    \A r \in Runs :
        runs[r].obs.seenStatus = "processing"
        => /\ runs[r].pc \in {"done", "routeCatch"}
           /\ ~runs[r].obs.wrote /\ ~runs[r].obs.wroteClasses /\ ~runs[r].obs.inserted
           /\ runs[r].obs.lockedBy = ""
           /\ runs[r].obs.clones = 0
           /\ \A i \in DOMAIN runs[r].events :
                Terminal(runs[r].events[i]) => runs[r].events[i] = ErrorEv(MsgConflict)
           /\ Connected(r)
              => /\ Ended(r)
                 /\ LastEvent(r) = ErrorEv(MsgConflict)
                 /\ TerminalCount(r) = 1

\* a run found the record locked by the other run, which still holds it,
\* and has ended with the conflict error
C10_Witness ==
    \E r, q \in Runs :
        /\ r # q
        /\ runs[q].loc.repoRecord.id # 0
        /\ repositories[runs[q].loc.repoRecord.id].status = "processing"
        /\ runs[r].repoUrl = runs[q].repoUrl
        /\ runs[r].obs.seenStatus = "processing"
        /\ Ended(r)
        /\ LastEvent(r) = ErrorEv(MsgConflict)
\* C11: a run whose reference parseGitHubUrl does not resolve to an owner/name
\* pair has ended with an error as its only event and the stream closed once;
\* it has read no record, written nothing, taken no lock and made no clone.
C11_InvalidInputNoEffect ==
    \A r \in Runs :
        (runs[r].pc # "idle" /\ parseGitHubUrl(runs[r].repoUrl) = <<>>)
        => /\ Ended(r)
           /\ Len(runs[r].events) = 1
           /\ runs[r].events[1].type = "error"
           /\ runs[r].chan = "closed" /\ runs[r].obs.closes = 1
           /\ runs[r].obs.seenStatus = ""
           /\ ~runs[r].obs.wrote /\ ~runs[r].obs.wroteClasses /\ ~runs[r].obs.inserted
           /\ runs[r].obs.lockedBy = ""
           /\ runs[r].obs.clones = 0

\* a run for a reference without github.com/<owner>/<repo> has ended with
\* 'Invalid GitHub URL' while the store is available
C11_Witness ==
    \E r \in Runs :
        /\ db
        /\ runs[r].repoUrl = BadUrl
        /\ Ended(r)
        /\ runs[r].events = <<ErrorEv(MsgInvalidUrl)>>
        /\ runs[r].chan = "closed"
\* C12: references that denote the same owner/name pair share one record and
\* one lock: every record is persisted under the normalized form of its
\* reference, the store never holds two records whose urls parse to the same
\* pair, and two runs whose references parse to the same pair never hold
\* different records.
C12_OneRecordPerRepository ==
    /\ \A i \in Ids(repositories) :
        repositories[i].url = normalizeGitHubUrl(repositories[i].url)
    /\ \A i, j \in Ids(repositories) :
        parseGitHubUrl(repositories[i].url) = parseGitHubUrl(repositories[j].url)
        => i = j
    /\ \A r, q \in Runs :
        (/\ parseGitHubUrl(runs[r].repoUrl) # <<>>
         /\ parseGitHubUrl(runs[r].repoUrl) = parseGitHubUrl(runs[q].repoUrl)
         /\ runs[r].obs.lockedId # 0 /\ runs[q].obs.lockedId # 0)
        => runs[r].obs.lockedId = runs[q].obs.lockedId
\* the run got a snapshot that checkRepositoryEligibilityLocal found ineligible
GotIneligible(r) == runs[r].obs.verdict \notin {"", "eligible"}

\* no run other than r works on the url of r
Alone(r) ==
    \A q \in Runs : q # r => runs[q].repoUrl # runs[r].repoUrl

\* C13: a run whose snapshot is ineligible, and whose store statements all
\* succeeded, ends with the record persisted as ineligible (is_eligible
\* false, a reason, no processing_started_at), has written no class-count
\* row and has emitted the error that carries the reason; for a new url and
\* for an existing record alike.
C13_IneligiblePersisted ==
    \A r \in Runs :
        (Ended(r) /\ GotIneligible(r) /\ faults = 0 /\ ~runs[r].obs.rejected)
        => /\ runs[r].obs.lastStatusWritten = "ineligible"
           /\ ~runs[r].obs.wroteClasses
           /\ Connected(r) => LastEvent(r) = ErrorEv(runs[r].obs.verdict)
           /\ Alone(r)
              => LET row == selectByUrl(repositories, runs[r].repoUrl)
                 IN /\ row.status = "ineligible"
                    /\ row.is_eligible = FALSE
                    /\ row.eligibility_reason = runs[r].obs.verdict
                    /\ row.processing_started_at = NullTime
\* the paths of the snapshots that pass shouldParseFile
Parsed == {path \in {AHtml, YarnLock, BJs, BJsx} : shouldParseFile(path)}

\* the places of a snapshot where a class is written: file, piece, quoted
\* string and word, in files that pass shouldParseFile and can be read,
\* inside a class attribute or a class helper call
Places(files) ==
    {<<f, p, q, w>> \in (1..4) \X (1..3) \X (1..2) \X (1..3) :
        /\ f \in DOMAIN files
        /\ files[f].content # NoContent
        /\ p \in DOMAIN files[f].content
        /\ files[f].content[p].form \in {"class=", "cls("}
        /\ q \in DOMAIN files[f].content[p].strings
        /\ w \in DOMAIN files[f].content[p].strings[q]
        /\ files[f].content[p].strings[q][w] # ""
        /\ files[f].path \in Parsed}
WordAt(files, x) == files[x[1]].content[x[2]].strings[x[3]][x[4]]
ClassesIn(files) == {WordAt(files, x) : x \in Places(files)}
Occurrences(files, cls) == Cardinality({x \in Places(files) : WordAt(files, x) = cls})

\* a sequence of class-count entries (rows or map entries) says exactly how
\* often each class of the snapshot occurs, once per class
AgreesWith(entries, files) ==
    /\ {e.class_name : e \in {entries[i] : i \in DOMAIN entries}} = ClassesIn(files)
    /\ \A i, j \in DOMAIN entries : entries[i].class_name = entries[j].class_name => i = j
    /\ \A i \in DOMAIN entries :
           entries[i].count = Occurrences(files, entries[i].class_name)

RECURSIVE sumOfRows(_)
sumOfRows(rows) == IF rows = <<>> THEN 0 ELSE Head(rows).count + sumOfRows(Tail(rows))

\* C15: whenever a record is completed, the store holds at most one class row
\* per class for it and total_classes is the sum of the counts of its rows,
\* whatever the interleaving of the runs.
C15_CompletedRowsConsistent ==
    \A id \in Ids(repositories) :
        repositories[id].status = "completed"
        => LET rows == classesOf(tailwindClasses, id)
           IN /\ \A i, j \in DOMAIN rows : rows[i].class_name = rows[j].class_name => i = j
              /\ repositories[id].total_classes = sumOfRows(rows)
\* a class row that an earlier cycle left in the store
FromEarlierCycle(row) == \E i \in DOMAIN OldClasses : row = OldClasses[i]

\* C16: once a run that acquired an existing record has ended its cycle
\* (completed, ineligible or failed), no class row of an earlier cycle remains
\* for the record.
C16_NoRowsOutliveCycle ==
    \A r \in Runs :
        (/\ Ended(r) /\ runs[r].obs.lockedBy = "update"
         /\ runs[r].obs.lastStatusWritten \in {"completed", "ineligible", "failed"})
        => \A i \in DOMAIN tailwindClasses :
               tailwindClasses[i].repo_id = runs[r].obs.lockedId
               => ~FromEarlierCycle(tailwindClasses[i])
\* the events of the file stage: those that carry filesProcessed
Counts(ev) == ev.n # NullInt

\* C17: in the events a run has delivered, every file-processed event
\* directly follows the parsing event of the same file, which carries the
\* count before that file; the filesProcessed values never decrease and never
\* exceed totalFiles; and a completed or error event is the last event.
C17_FileEventsInOrder ==
    \A r \in Runs :
        LET E == runs[r].events
        IN /\ \A j \in DOMAIN E :
                  E[j].type = "file-processed"
                  => /\ j > 1
                     /\ E[j - 1].type = "progress" /\ E[j - 1].status = "parsing"
                     /\ E[j - 1].file = E[j].file
                     /\ E[j - 1].n = E[j].n - 1
                     /\ \A i \in DOMAIN E :
                            (i > j /\ Counts(E[i]) /\ E[i].file # <<>>) => E[i].n >= E[j].n
           /\ \A i, j \in DOMAIN E :
                  (i < j /\ Counts(E[i]) /\ Counts(E[j])) => E[i].n <= E[j].n
           /\ \A i \in DOMAIN E :
                  Counts(E[i]) => /\ 0 <= E[i].n /\ E[i].n <= E[i].totalFiles
                                  /\ \A j \in DOMAIN E :
                                         Counts(E[j]) => E[j].totalFiles = E[i].totalFiles
           /\ \A i \in DOMAIN E : Terminal(E[i]) => i = Len(E)

\* a run has gone through two files and completed
C17_Witness ==
    \E r \in Runs :
        LET E == runs[r].events
        IN /\ Ended(r) /\ LastEvent(r).type = "completed"
           /\ \E i, j \in DOMAIN E :
                  /\ i < j
                  /\ E[i] = OfTotal(FileProcessedEv(AHtml, 1), 2)
                  /\ E[j] = OfTotal(FileProcessedEv(BJsx, 2), 2)
\* the place of a progress status in fetching, parsing, analyzing, saving
StageOf(status) ==
    CASE status = "fetching" -> 1
      [] status = "parsing" -> 2
      [] status = "analyzing" -> 3
      [] status = "saving" -> 4
      [] OTHER -> 0

\* C18: the statuses of the progress events a run has delivered are among
\* fetching, parsing, analyzing and saving and never move backwards, and no
\* progress event follows a completed or error event.
C18_StatusesMoveForward ==
    \A r \in Runs :
        LET E == runs[r].events
        IN /\ \A i \in DOMAIN E : E[i].type = "progress" => StageOf(E[i].status) > 0
           /\ \A i, j \in DOMAIN E :
                  (i < j /\ E[i].type = "progress" /\ E[j].type = "progress")
                  => StageOf(E[i].status) <= StageOf(E[j].status)
           /\ \A i, j \in DOMAIN E :
                  (i < j /\ Terminal(E[i])) => E[j].type # "progress"

\* a run has announced all four stages and completed
C18_Witness ==
    \E r \in Runs :
        /\ Ended(r) /\ LastEvent(r).type = "completed"
        /\ \A k \in 1..4 :
               \E i \in DOMAIN runs[r].events :
                   /\ runs[r].events[i].type = "progress"
                   /\ StageOf(runs[r].events[i].status) = k
\* the run is between the first file and the completing update
InFileStage(r) ==
    runs[r].pc \in {"readFile", "deleteRows", "insertBatch", "setCompleted", "reselect"}

\* C19: a file that cannot be read does not abort the run: its text is not
\* kept for counting, it is counted in processed_files, which is persisted,
\* its file-processed event is emitted, and the run goes on to completed
\* unless a store statement fails or the observer leaves.
C19_UnreadableFileSkipped ==
    \A r \in Runs :
        LET files == runs[r].loc.eligibleFiles
            done == runs[r].loc.filesProcessed
        IN /\ InFileStage(r)
              => /\ \A k \in 1..done :
                        (files[k].content = NoContent /\ Connected(r))
                        => Emitted(r, OfTotal(FileProcessedEv(files[k].path, k),
                                              Len(files)))
                 /\ Alone(r)
                    => selectById(repositories, runs[r].loc.repoRecord.id).processed_files
                       = done
                 /\ \A i \in DOMAIN runs[r].loc.filesToProcess :
                        runs[r].loc.filesToProcess[i].content # NoContent
           /\ (Ended(r) /\ Connected(r) /\ runs[r].obs.fileStage /\ faults = 0)
              => /\ LastEvent(r).type = "completed"
                 /\ AgreesWith(LastEvent(r).classCounts, runs[r].obs.files)

\* a run has completed on the snapshot whose first file cannot be read
C19_Witness ==
    \E r \in Runs :
        /\ Ended(r) /\ runs[r].obs.files = eligibleFilesOf(SnapUnreadable)
        /\ Emitted(r, OfTotal(FileProcessedEv(AHtml, 1), 2))
        /\ LastEvent(r).type = "completed"
        /\ LastEvent(r).classCounts = <<[class_name |-> "flex", count |-> 3]>>
        /\ selectById(repositories, runs[r].obs.lockedId).processed_files = 2
\* a store statement of the run has failed (they fail for r1 only, see
\* StoreOutcomes)
StoreFailed(r) == r = "r1" /\ faults > 0

\* C20: a run one of whose store statements failed ends with an error event
\* and never with completed, and has not cloned after a lookup that failed.
C20_StoreFailureEndsInError ==
    \A r \in Runs :
        (Ended(r) /\ Connected(r) /\ StoreFailed(r))
        => /\ LastEvent(r).type = "error"
           /\ runs[r].obs.seenStatus = "unknown" => runs[r].obs.clones = 0
\* the longest an invocation can wait for timers: two branch resolutions
\* and one clone
MaxWait == 2 * (SymrefTimeout + 3 * ProbeTimeout) + CloneTimeout

Alive(a) ==
    /\ acqs[a].pc # "idle"
    /\ acqs[a].result # "null"
    /\ ~acqs[a].cleaned

\* C22: two invocations of the acquirer that are alive at the same time never
\* use the same snapshot directory, and the directory of a handle that has
\* not been cleaned up exists.
C22_OwnDirectory ==
    /\ \A a, b \in Acqs :
           (a # b /\ Alive(a) /\ Alive(b)) => acqs[a].tempDir # acqs[b].tempDir
    /\ \A a \in Acqs :
           (acqs[a].result = "handle" /\ ~acqs[a].cleaned) => acqs[a].tempDir \in disk
\* the manifest exists, parses, and names tailwindcss or @tailwindcss/cli
\* among the keys of its dependencies or devDependencies
Lists(m) ==
    /\ m.file = "json" /\ m.top = "object"
    /\ \E f \in {m.dependencies, m.devDependencies} :
           f.kind = "object" /\ f.keys \cap {"tailwindcss", "@tailwindcss/cli"} # {}

\* C23: checkRepositoryEligibilityLocal answers isEligible exactly when the
\* manifest exists, parses and lists tailwindcss or @tailwindcss/cli; an
\* ineligible verdict has a reason; a manifest that parses but lacks the
\* dependency gets a reason other than that of a missing one; and hasTailwind
\* implies packageJsonExists.
C23_EligibleIffListed ==
    (calc.fn = "checkRepositoryEligibilityLocal" /\ calc.output # NoVerdict)
    => LET m == calc.input
           v == calc.output
       IN /\ v.isEligible <=> Lists(m)
          /\ ~v.isEligible => v.reason # ""
          /\ (m.file = "json" /\ ~Lists(m))
             => v.reason # checkRepositoryEligibilityLocal(
                               Manifest("missing", "", Absent, Absent)).reason
          /\ v.hasTailwind => v.packageJsonExists
\* the call probed commonBranches in order up to the first branch found
ProbedInOrder(call) ==
    /\ Len(call.probed) \in 1..Len(commonBranches)
    /\ \A i \in 1..Len(call.probed) :
         /\ call.probed[i][1] = commonBranches[i]
         /\ i < Len(call.probed) => call.probed[i][2] # "found"

\* C24: getDefaultBranch always returns a name; the branch of the symbolic
\* HEAD when the first query yields one; when that query errors, times out
\* or yields no branch, it probes main, master, develop in order and returns
\* the first one found, and returns 'main' only after every probe failed.
C24_FallbackOrder ==
    \A a \in Acqs :
        LET call == acqs[a].lastCall
        IN call.returned # ""
           => /\ call.symref \in {"ref", "noref", "error", "timeout"}
              /\ IF call.symref = "ref"
                 THEN call.probed = <<>> /\ call.returned = remote.head
                 ELSE /\ ProbedInOrder(call)
                      /\ LET last == call.probed[Len(call.probed)]
                         IN IF last[2] = "found"
                            THEN call.returned = last[1]
                            ELSE /\ Len(call.probed) = Len(commonBranches)
                                 /\ call.returned = "main"
\* the calls of a function of tailwind-parser.ts made so far
CallsOf(fn) == {c \in {calc.calls[i] : i \in DOMAIN calc.calls} : c.fn = fn}

\* the lower-cased path holds an exclusion marker / ends with an extension
\* of the allow list
HasMarker(path) ==
    \E i \in DOMAIN skipPatterns : includes(toLowerCase(path), skipPatterns[i])
HasExtension(path) ==
    \E i \in DOMAIN TAILWIND_FILE_EXTENSIONS :
        endsWith(toLowerCase(path), TAILWIND_FILE_EXTENSIONS[i])

RECURSIVE tokensIn(_)
tokensIn(files) ==
    IF files = <<>> THEN 0
    ELSE (IF shouldParseFile(Head(files).name)
          THEN Len(extractClasses(Head(files).content)) ELSE 0)
         + tokensIn(Tail(files))

\* C26: the values of the map countTailwindClasses returns are numbers whose
\* sum is the number of tokens extractClasses returns over the eligible
\* files; a second call of countTailwindClasses or of extractClasses on the
\* same input returns what the first returned, and no call leaves a pattern
\* anywhere but at its start.
C26_CountsConserved ==
    calc.fn = "tailwind-parser"
    => /\ \A c \in CallsOf("countTailwindClasses") :
            /\ \A i \in DOMAIN c.out : c.out[i].count # Concatenated
            /\ sumOfRows(c.out) = tokensIn(calc.files)
       /\ \A c, d \in CallsOf("countTailwindClasses") : c.out = d.out
       /\ \A c, d \in CallsOf("extractClasses") : c.arg = d.arg => c.out = d.out
       /\ calc.lastIndex = AtStart
\* where a class stands in the count map, by insertion
PlaceIn(counts, cls) == CHOOSE i \in DOMAIN counts : counts[i].class_name = cls

\* C27: topClasses has at most 20 entries, each an entry of the count map,
\* in non-increasing order of count; no class left out has a higher count
\* than one that is in; and classes of equal count stand in the order in
\* which they were inserted into the count map.
C27_TopClasses ==
    (calc.fn = "formatTailwindStats" /\ calc.output # NoStats)
    => LET counts == calc.input
           top == calc.output.topClasses
           In(e) == \E i \in DOMAIN top : top[i] = e
       IN /\ Len(top) <= 20
          /\ \A i \in DOMAIN top : \E k \in DOMAIN counts : counts[k] = top[i]
          /\ \A i, j \in DOMAIN top : i < j => top[i].count >= top[j].count
          /\ \A k \in DOMAIN counts :
                 ~In(counts[k]) => /\ Len(top) = 20
                                   /\ \A i \in DOMAIN top : top[i].count >= counts[k].count
          /\ \A i, j \in DOMAIN top :
                 (i < j /\ top[i].count = top[j].count)
                 => PlaceIn(counts, top[i].class_name) < PlaceIn(counts, top[j].class_name)
\* C28: the stream of every response holds 'connected' in front of every
\* event of the run, whatever the body of the request was.
C28_ConnectedFirst ==
    \A r \in Runs :
        (runs[r].pc # "idle" \/ runs[r].events # <<>>) => runs[r].obs.connectedAt = 0

\* a request whose body is no JSON, one without repoUrl and one with a url
\* that is none have each been answered with 'connected' and one error
C28_Witness ==
    \E r \in Runs :
        /\ Ended(r) /\ runs[r].obs.connectedAt = 0
        /\ runs[r].events \in {<<ErrorEv(MsgRouteSetup)>>, <<ErrorEv(MsgInvalidUrl)>>}
        /\ \E q \in Runs : Ended(q) /\ LastEvent(q).type = "completed"
                           /\ runs[q].obs.connectedAt = 0
\* C29: a step of a run leaves alone every record of another url and the
\* class rows of that record; in particular the lock of a url is reclaimed
\* only by a run that was asked for that url.
C29_OtherUrlsUntouched ==
    [][\A r \in Runs :
          runs'[r] # runs[r]
          => \A i \in Ids(repositories) :
                 (/\ repositories[i].url # runs'[r].repoUrl
                  /\ repositories[i].url # normalizeGitHubUrl(runs'[r].repoUrl))
                 => /\ i \in Ids(repositories')
                    /\ repositories'[i] = repositories[i]
                    /\ classesOf(tailwindClasses', i) = classesOf(tailwindClasses, i)]_vars
\* C30: when the observer has gone and emit or close fails (no store
\* statement having failed), a run that has persisted its record as
\* completed writes nothing further to it, and the failure does not leave
\* the route handler as an unhandled rejection.
C30_DeliveryFailureHarmless ==
    [][\A r \in Runs :
          (runs'[r].obs.callsOnClosed > 0 /\ faults' = 0)
          => /\ runs[r].obs.lastStatusWritten = "completed"
                => /\ runs'[r].obs.lastStatusWritten = "completed"
                   /\ selectById(repositories', runs[r].obs.lockedId).status
                      = selectById(repositories, runs[r].obs.lockedId).status
             /\ ~runs'[r].obs.unhandled]_vars
\* the lease of run r on its record has expired and another run has taken
\* the record after it: r still works on the record, and q, whose cleanup
\* reset the record of r's lease as stale, got the record afterwards
Superseded(r) ==
    /\ runs[r].loc.repoRecord.id # 0
    /\ \E q \in Runs :
          /\ q # r
          /\ <<runs[r].loc.repoRecord.id, runs[r].loc.repoRecord.processing_started_at>>
             \in runs[q].obs.reset
          /\ runs[q].loc.repoRecord.id = runs[r].loc.repoRecord.id

\* C31: a run whose lease has expired and whose record another run has
\* re-acquired writes no more to the record and to its class rows: no step of
\* such a run changes the record or the class rows of the record (read for
\* runs that meet no failing store statement and no closed stream).
C31_ExpiredLeaseWritesNothing ==
    [][\A r \in Runs :
          (/\ Superseded(r) /\ runs'[r] # runs[r]
           /\ faults' = 0 /\ runs'[r].obs.callsOnClosed = 0)
          => /\ selectById(repositories', runs[r].loc.repoRecord.id)
                = selectById(repositories, runs[r].loc.repoRecord.id)
             /\ classesOf(tailwindClasses', runs[r].loc.repoRecord.id)
                = classesOf(tailwindClasses, runs[r].loc.repoRecord.id)]_vars
\* the lookup of run r found a record for its url
SawRecord(r) == runs[r].obs.seenStatus \in {"failed", "ineligible", "completed", "processing"}

\* C32: the acquirer is invoked for an existing record only by the run that
\* holds its lock: a run whose lookup found a record and which has called
\* analyzeRepositoryLocal got the record from tryAcquireProcessingLock.
C32_CloneOnlyWithLock ==
    \A r \in Runs :
        (SawRecord(r) /\ runs[r].obs.clones > 0) => runs[r].obs.lockedBy = "update"
\* C33: no step moves to processing a record that at that moment is
\* completed with an analyzed_at less than 48 hours old; a run that saw the
\* record expired does not force a re-analysis once another run has
\* refreshed it.
C33_FreshRecordNotReprocessed ==
    [][\A i \in Ids(repositories) :
          (repositories[i].status = "completed" /\ cacheIsFresh(repositories[i], now))
          => repositories'[i].status # "processing"]_vars
\* C34: class rows of a repository are deleted or inserted only while its
\* record is processing: no step changes the class rows of a record whose
\* status is completed, so a reader of the cache sees a whole count set.
C34_RowsWrittenOnlyWhileProcessing ==
    [][\A i \in Ids(repositories) :
          repositories[i].status = "completed"
          => classesOf(tailwindClasses', i) = classesOf(tailwindClasses, i)]_vars
\* the events that run r emits in the step
NewEvents(r) ==
    {runs'[r].events[k] : k \in (DOMAIN runs'[r].events) \ (DOMAIN runs[r].events)}

\* C35: when a run that analyzed emits completed, the store already shows
\* the final state and the snapshot is gone: the record is completed with no
\* processing_started_at, the class rows of the record are the rows of the
\* run's counts, and cleanup() has been called; and when it emits
\* file-processed with counter i, processed_files = i is in the store.
C35_EmittedAfterPersisted ==
    [][\A r \in Runs :
          LET id == runs[r].loc.repoRecord.id
          IN \A ev \in NewEvents(r) :
                /\ (ev.type = "completed" /\ runs[r].obs.fileStage)
                   => /\ selectById(repositories', id).status = "completed"
                      /\ selectById(repositories', id).processing_started_at = NullTime
                      /\ classesOf(tailwindClasses', id) = classRows(id, runs[r].loc.classCounts)
                      /\ runs[r].obs.cleanups = 1
                /\ ev.type = "file-processed"
                   => selectById(repositories', id).processed_files = ev.n]_vars
\* the number of listed files whose path passes shouldParseFile
PassingIn(files) == Cardinality({k \in DOMAIN files : files[k].path \in Parsed})

\* the record that run r analyzes
RecordOf(r) == selectById(repositories, runs[r].obs.lockedId)

\* in every state: processed_files of a record analyzed by a single run
\* never exceeds total_files, and equals it when the record is completed
C36_WithinTotal ==
    \A r \in Runs :
        (Alone(r) /\ runs[r].obs.fileStage)
        => /\ RecordOf(r).processed_files >= 0
           /\ RecordOf(r).processed_files <= RecordOf(r).total_files
           /\ RecordOf(r).status = "completed"
              => RecordOf(r).processed_files = RecordOf(r).total_files

\* in every step: the update before the loop persists the number of passing
\* files and processed_files 0; a file of the loop whose update succeeds
\* raises processed_files by one; nothing else changes it
C36_OnePerFile ==
    \A r \in Runs :
        LET id == runs[r].loc.repoRecord.id
            old == selectById(repositories, id).processed_files
            new == selectById(repositories', id).processed_files
            acts == runs'[r] # runs[r]
        IN (Alone(r) /\ id # 0)
           => /\ (~runs[r].obs.fileStage /\ runs'[r].obs.fileStage)
                 => /\ new = 0
                    /\ selectById(repositories', id).total_files
                       = Len(runs[r].loc.eligibleFiles)
                    /\ \E fl \in FileLists :
                          /\ eligibleFilesOf(fl) = runs[r].loc.eligibleFiles
                          /\ selectById(repositories', id).total_files = PassingIn(fl)
              /\ runs[r].obs.fileStage
                 => \/ new = old
                    \/ new = old + 1 /\ acts /\ runs[r].pc = "readFile"
              /\ (acts /\ runs[r].pc = "readFile" /\ faults' = faults)
                 => new = old + 1

\* C36: for a record analyzed by a single run, total_files is persisted as
\* the number of listed files that pass the filter, processed_files starts at
\* 0, rises by exactly 1 per eligible file, readable or not, never exceeds
\* total_files, and equals total_files whenever the record is completed.
C36_FileCounters == [](C36_WithinTotal) /\ [][C36_OnePerFile]_vars

\* a single run has completed the snapshot with an unreadable file: both of
\* its eligible files are counted
C36_Witness ==
    \E r \in Runs :
        /\ Alone(r)
        /\ runs[r].obs.files = eligibleFilesOf(SnapUnreadable)
        /\ RecordOf(r).status = "completed"
        /\ RecordOf(r).total_files = 2
        /\ RecordOf(r).processed_files = 2
\* the edges along which the status of a record may change
StatusEdges ==
    {<<"processing", "completed">>, <<"processing", "failed">>,
     <<"processing", "ineligible">>, <<"failed", "processing">>,
     <<"ineligible", "processing">>, <<"completed", "processing">>}

\* C37: the status of a record changes only along the edges absent ->
\* processing, absent -> ineligible, processing -> completed / failed /
\* ineligible, and failed / ineligible / completed for 48 hours or more ->
\* processing; no step moves completed to failed or ineligible.
C37_StatusEdges ==
    [][\A i \in Ids(repositories') :
          IF i \notin Ids(repositories)
          THEN repositories'[i].status \in {"processing", "ineligible"}
          ELSE \/ repositories'[i].status = repositories[i].status
               \/ /\ <<repositories[i].status, repositories'[i].status>> \in StatusEdges
                  /\ repositories[i].status = "completed"
                     => ~cacheIsFresh(repositories[i], now)]_vars
\* the rows of a sequence of insert statements, in the order issued
RECURSIVE RowsOf(_)
RowsOf(statements) ==
    IF statements = <<>> THEN <<>>
    ELSE RowsOf(SubSeq(statements, 1, Len(statements) - 1)) \o statements[Len(statements)]

\* C38: the batched save inserts every entry of the count map exactly once:
\* every statement carries between 1 and 100 rows, no row is issued twice,
\* and when the loop has ended the statements number ceil(n / 100) and their
\* rows are exactly the n entries; no statement is issued when n = 0.
C38_EveryEntryOnce ==
    calc.fn = "saveClassCounts"
    => LET n == Len(calc.classCounts)
           issued == RowsOf(calc.statements)
       IN /\ \A k \in DOMAIN calc.statements :
                Len(calc.statements[k]) >= 1 /\ Len(calc.statements[k]) <= BATCH_SIZE
          /\ \A a, b \in DOMAIN issued :
                issued[a].class_name = issued[b].class_name => a = b
          /\ calc.pc = "saved"
             => /\ Len(calc.statements) = (n + BATCH_SIZE - 1) \div BATCH_SIZE
                /\ Len(issued) = n
                /\ \A k \in 1..n :
                      \E a \in DOMAIN issued :
                          issued[a] = [repo_id |-> 1,
                                       class_name |-> calc.classCounts[k].class_name,
                                       count |-> calc.classCounts[k].count]
                /\ n = 0 => calc.statements = <<>>

\* a map of 201 classes has been saved with three statements, the last of
\* them carrying the one remaining row
C38_Witness ==
    /\ calc.fn = "saveClassCounts"
    /\ calc.pc = "saved"
    /\ Len(calc.classCounts) = 2 * BATCH_SIZE + 1
    /\ Len(calc.statements) = 3
    /\ Len(calc.statements[3]) = 1
\* C39: the defaultBranch of the handle that analyzeRepositoryLocal returns
\* is the branch that was cloned into the snapshot, also when a call that
\* resolves the branch fails after the clone.
C39_ReturnedBranchIsCloned ==
    \A a \in Acqs :
        acqs[a].result = "handle" => acqs[a].defaultBranch = acqs[a].targetBranch
====
